---- MODULE Spec2Model ----
(***************************************************************************)
(* LAPU-128: the assembler (src/assembler/lapu128_as.py) and the emulator  *)
(* (src/emulator/lapu128_emulator.py) as one state machine.                *)
(*                                                                         *)
(* A 128-bit instruction word is the set of its bit positions that are 1   *)
(* (a subset of 0..127), so fields keep their positions and widths.        *)
(* The fixed-point formats are narrowed so that every value is a machine   *)
(* integer of the checker: Q32.32 becomes Q<INT_BITS>.<FRAC_BITS>, and the *)
(* Q22.23 immediate of 45 bits becomes IMM_BITS bits with IMM_FRAC_BITS    *)
(* fractional bits.  All arithmetic is written in terms of these widths,   *)
(* exactly as the source writes it in terms of FRAC_BITS and INT_BITS.     *)
(***************************************************************************)
EXTENDS Integers, Sequences, FiniteSets, TLC

VARIABLES phase, src, out, asm_err, prog, pc, s, v, bank, step, max_steps,
          pred_uses_real_only, status

vars == <<phase, src, out, asm_err, prog, pc, s, v, bank, step, max_steps,
          pred_uses_real_only, status>>

(***************************************************************************)
(* Bounds of the model.                                                    *)
(***************************************************************************)
\* fractional bits of the register format (32 in the source)
FRAC_BITS == 4
\* integer bits of the register format (32 in the source)
INT_BITS == 4
\* fractional bits of an immediate component (23 in the source)
IMM_FRAC_BITS == 2
\* total bits of an immediate component (45 in the source)
IMM_BITS == 5
\* lanes of a vector register (--vlen, 8 by default)
VLEN == 3
\* bank side multiplier (--n-mult, 2 by default)
N_MULT == 2
\* largest --max-steps value explored
MaxSteps == 8
\* largest loop count n of the predicated-loop program
MaxLoopN == 2
\* significant digits of the assembler's decimal context (80 in the source)
PREC == 3

(***************************************************************************)
(* Fixed-point helpers (emulator).                                         *)
(***************************************************************************)
Pow2(n) == 2 ^ n

RAW_MIN == -Pow2(FRAC_BITS + INT_BITS - 1)
RAW_MAX == Pow2(FRAC_BITS + INT_BITS - 1) - 1

Abs(x) == IF x >= 0 THEN x ELSE -x

\* Python's // : floor division, for either sign of the divisor
FloorDiv(a, b) == IF b > 0 THEN a \div b ELSE (-a) \div (-b)

\* no clamping
sat64_mut(x) == x

sat64(x) == IF x < RAW_MIN THEN RAW_MIN ELSE IF x > RAW_MAX THEN RAW_MAX ELSE x

add_q(a, b) == sat64(a + b)

sub_q(a, b) == sat64(a - b)

\* the arithmetic right shift, which rounds a negative value down
trunc_shr_mut(x, n) == x \div Pow2(n)

trunc_shr(x, n) == IF x >= 0 THEN x \div Pow2(n) ELSE -((-x) \div Pow2(n))

mul_q(a, b) == sat64(trunc_shr(a * b, FRAC_BITS))

recip_q(a) == IF a = 0 THEN 0 ELSE sat64(FloorDiv(trunc_shr(Pow2(FRAC_BITS * 2), 0), a))

div_q(num, den) ==
  IF den = 0 THEN 0
  ELSE LET wide == num * Pow2(FRAC_BITS)
       IN IF (wide >= 0 /\ den > 0) \/ (wide <= 0 /\ den < 0)
          THEN sat64(Abs(wide) \div Abs(den))
          ELSE sat64(-(Abs(wide) \div Abs(den)))

abs_q(a) == IF a >= 0 THEN a ELSE sat64(-a)

\* math.isqrt: the floor square root of a natural number
isqrt(n) == CHOOSE y \in 0..(n + 1) : y * y <= n /\ (y + 1) * (y + 1) > n

c_add(a, b) == <<add_q(a[1], b[1]), add_q(a[2], b[2])>>

c_sub(a, b) == <<sub_q(a[1], b[1]), sub_q(a[2], b[2])>>

\* the product with the two partial products of the real part added
c_mul_mut(a, b) ==
  <<add_q(mul_q(a[1], b[1]), mul_q(a[2], b[2])),
    add_q(mul_q(a[1], b[2]), mul_q(a[2], b[1]))>>

c_mul(a, b) ==
  <<sub_q(mul_q(a[1], b[1]), mul_q(a[2], b[2])),
    add_q(mul_q(a[1], b[2]), mul_q(a[2], b[1]))>>

\* c_div that answers a zero denominator with the largest value
c_div_mut(a, b) ==
  LET denom == add_q(mul_q(b[1], b[1]), mul_q(b[2], b[2]))
      num   == c_mul(a, <<b[1], -b[2]>>)
  IN IF denom = 0 THEN <<RAW_MAX, RAW_MAX>>
     ELSE <<div_q(num[1], denom), div_q(num[2], denom)>>

c_div(a, b) ==
  LET denom == add_q(mul_q(b[1], b[1]), mul_q(b[2], b[2]))
      num   == c_mul(a, <<b[1], -b[2]>>)
  IN IF denom = 0 THEN <<0, 0>>
     ELSE <<div_q(num[1], denom), div_q(num[2], denom)>>

\* the real component negated in place of the imaginary one
c_conj_mut(a) == <<sat64(-a[1]), a[2]>>

c_conj(a) == <<a[1], sat64(-a[2])>>

c_abs2(a) == sat64(trunc_shr(a[1] * a[1] + a[2] * a[2], FRAC_BITS))

c_abs(a) ==
  LET mag2 == c_abs2(a)
  IN IF mag2 < 0 THEN 0 ELSE sat64(isqrt(mag2 * Pow2(FRAC_BITS)))

\* The source takes the principal square root in double precision and
\* truncates it (from_float); here the closed form is evaluated with floor
\* square roots: |w| = sqrt(|z|), re = sqrt((|z|+a)/2), im = sgn(b)*sqrt((|z|-a)/2).
c_sqrt(a) ==
  LET mag == isqrt(a[1] * a[1] + a[2] * a[2])
      re  == isqrt(((mag + a[1]) * Pow2(FRAC_BITS)) \div 2)
      im  == isqrt(((mag - a[1]) * Pow2(FRAC_BITS)) \div 2)
  IN <<sat64(re), sat64(IF a[2] < 0 THEN -im ELSE im)>>

(***************************************************************************)
(* Bit fields of a word.                                                   *)
(***************************************************************************)
WORD_BITS == 128

RECURSIVE SumPow(_, _)
\* the number whose 1 bits are the positions of S, read relative to lo
SumPow(S, lo) ==
  IF S = {} THEN 0
  ELSE LET i == CHOOSE x \in S : TRUE
       IN Pow2(i - lo) + SumPow(S \ {i}, lo)

\* (word >> lo) & mask, mask of width hi-lo+1
get_bits(word, hi, lo) == SumPow({i \in word : lo <= i /\ i <= hi}, lo)

\* get_bits followed by "val -= 1 << width" when the sign bit is set; the
\* difference is computed as -(1 + value of the inverted low bits), which is
\* the same number and never leaves the checker's integers.
get_bits_signed(word, hi, lo) ==
  IF hi \in word
  THEN -(1 + SumPow({i \in lo..(hi - 1) : i \notin word}, lo))
  ELSE get_bits(word, hi - 1, lo)

\* the 1 bits of a natural number below 2^30
BitsOf(n) == {k \in 0..29 : (n \div Pow2(k)) % 2 = 1}

\* a word built from <<value, lo>> fields (values are naturals)
MkWord(fields) == UNION {{f[2] + k : k \in BitsOf(f[1])} : f \in fields}

(***************************************************************************)
(* Machine state (emulator).                                               *)
(***************************************************************************)
BANKS == 4

Rows == N_MULT * VLEN
Cols == N_MULT * VLEN

Zero == <<0, 0>>

ZeroVec == [k \in 1..VLEN |-> Zero]

\* Machine.__init__
MachineInit ==
  [pc   |-> 0,
   s    |-> [i \in 0..7 |-> Zero],
   v    |-> [i \in 0..7 |-> ZeroVec],
   bank |-> [b \in 0..(BANKS - 1) |-> [r \in 0..(Rows - 1) |-> [c \in 0..(Cols - 1) |-> Zero]]]]

\* the outcome of a call that may raise RuntimeError: the machine as the
\* call left it, and whether it raised
Done(m) == [err |-> FALSE, m |-> m]
Raise(m) == [err |-> TRUE, m |-> m]

\* write_s without the test for the reserved register
write_s_mut(m, idx, val) ==
  Done([m EXCEPT !.s[idx] = <<sat64(val[1]), sat64(val[2])>>])

write_s(m, idx, val) ==
  IF idx = 0 THEN Raise(m)
  ELSE Done([m EXCEPT !.s[idx] = <<sat64(val[1]), sat64(val[2])>>])

\* write_v without the test for the reserved register
write_v_mut(m, idx, vec) ==
  IF Len(vec) # VLEN THEN Raise(m)
  ELSE Done([m EXCEPT !.v[idx] = [k \in 1..VLEN |-> <<sat64(vec[k][1]), sat64(vec[k][2])>>]])

write_v(m, idx, vec) ==
  IF idx = 0 THEN Raise(m)
  ELSE IF Len(vec) # VLEN THEN Raise(m)
  ELSE Done([m EXCEPT !.v[idx] = [k \in 1..VLEN |-> <<sat64(vec[k][1]), sat64(vec[k][2])>>]])

\* pred_true that tests both parts whatever the option says
pred_true_mut(m, real_only) == (m.s[1][1] # 0) \/ (m.s[1][2] # 0)

pred_true(m, real_only) ==
  IF real_only THEN m.s[1][1] # 0
  ELSE (m.s[1][1] # 0) \/ (m.s[1][2] # 0)

(***************************************************************************)
(* Instruction execution (emulator).                                       *)
(***************************************************************************)
MAP_SS_to_S == 0
MAP_VV_to_V == 1
MAP_VV_to_S == 2
MAP_VS_to_V == 3

RECURSIVE DotFold(_, _, _, _, _)
\* acc after lanes k..VLEN of "acc = c_add(acc, c_mul(x_i, b_i))", x_i = a_i
\* or its conjugate
DotFold(A, B, conjA, k, acc) ==
  IF k > VLEN THEN acc
  ELSE DotFold(A, B, conjA, k + 1,
               c_add(acc, c_mul(IF conjA THEN c_conj(A[k]) ELSE A[k], B[k])))

RECURSIVE SumFold_mut(_, _, _)
\* the sum taken from the last lane down to the first
SumFold_mut(A, k, acc) ==
  IF k > VLEN THEN acc ELSE SumFold_mut(A, k + 1, c_add(acc, A[VLEN + 1 - k]))

RECURSIVE SumFold(_, _, _)
SumFold(A, k, acc) ==
  IF k > VLEN THEN acc ELSE SumFold(A, k + 1, c_add(acc, A[k]))

RECURSIVE AsumFold(_, _, _)
AsumFold(A, k, acc_real) ==
  IF k > VLEN THEN acc_real ELSE AsumFold(A, k + 1, add_q(acc_real, c_abs(A[k])))

RECURSIVE IamaxLoop_mut(_, _, _, _)
\* the loop with ">=" for ">": a later lane of the same value takes over
IamaxLoop_mut(A, i, best_idx, best_val) ==
  IF i >= VLEN THEN best_idx
  ELSE LET val == c_abs2(A[i + 1])
       IN IF val >= best_val THEN IamaxLoop_mut(A, i + 1, i, val)
          ELSE IamaxLoop_mut(A, i + 1, best_idx, best_val)

RECURSIVE IamaxLoop(_, _, _, _)
\* the loop "for i in range(1, len(A))"; i is the 0-based lane index
IamaxLoop(A, i, best_idx, best_val) ==
  IF i >= VLEN THEN best_idx
  ELSE LET val == c_abs2(A[i + 1])
       IN IF val > best_val THEN IamaxLoop(A, i + 1, i, val)
          ELSE IamaxLoop(A, i + 1, best_idx, best_val)

\* vmac that starts from an empty result as the other lane operations do:
\* the destination is not read
vmac_mut(D, A, B) == [k \in 1..VLEN |-> c_mul(A[k], B[k])]

\* the vmac branch: D is a copy of the destination's lanes taken before the
\* loop, and lane i becomes c_add(D[i], c_mul(A[i], B[i]))
vmac(D, A, B) == [k \in 1..VLEN |-> c_add(D[k], c_mul(A[k], B[k]))]

exec_r(m, w) ==
  LET subop   == get_bits(w, 119, 112)
      mapbits == get_bits(w, 97, 96)
      rd      == get_bits(w, 95, 93)
      rs1     == get_bits(w, 92, 90)
      rs2     == get_bits(w, 89, 87)
  IN
  IF mapbits = MAP_SS_to_S THEN
    IF subop \in 0..7 THEN
      LET a == m.s[rs1] IN
      CASE subop = 0 -> write_s(m, rd, <<-a[1], -a[2]>>)
        [] subop = 1 -> write_s(m, rd, c_conj(a))
        [] subop = 2 -> write_s(m, rd, c_sqrt(a))
        [] subop = 3 -> write_s(m, rd, <<c_abs2(a), 0>>)
        [] subop = 4 -> write_s(m, rd, <<c_abs(a), 0>>)
        [] subop = 5 -> write_s(m, rd, <<a[1], 0>>)
        [] subop = 6 -> write_s(m, rd, <<a[2], 0>>)
        [] subop = 7 -> write_s(m, rd, c_div(<<Pow2(FRAC_BITS), 0>>, a))
    ELSE
      LET a == m.s[rs1]
          b == m.s[rs2]
      IN
      CASE subop = 8  -> write_s(m, rd, c_add(a, b))
        [] subop = 9  -> write_s(m, rd, c_sub(a, b))
        [] subop = 10 -> write_s(m, rd, c_mul(a, b))
        [] subop = 11 -> write_s(m, rd, c_div(a, b))
        [] subop = 12 -> write_s(m, rd, IF c_abs2(a) >= c_abs2(b) THEN a ELSE b)
        [] subop = 13 -> write_s(m, rd, IF c_abs2(a) <= c_abs2(b) THEN a ELSE b)
        [] subop = 14 -> write_s(m, rd, <<IF a[1] < b[1] THEN Pow2(FRAC_BITS) ELSE 0, 0>>)
        [] subop = 15 -> write_s(m, rd, <<IF a[1] > b[1] THEN Pow2(FRAC_BITS) ELSE 0, 0>>)
        [] subop = 16 -> write_s(m, rd, <<IF a[1] <= b[1] THEN Pow2(FRAC_BITS) ELSE 0, 0>>)
        [] OTHER -> Raise(m)
  ELSE IF mapbits = MAP_VV_to_V THEN
    LET A == m.v[rs1]
        B == m.v[rs2]
    IN
    CASE subop = 5 -> write_v(m, rd, [k \in 1..VLEN |-> c_conj(A[k])])
      [] subop = 0 -> write_v(m, rd, [k \in 1..VLEN |-> c_add(A[k], B[k])])
      [] subop = 1 -> write_v(m, rd, [k \in 1..VLEN |-> c_sub(A[k], B[k])])
      [] subop = 2 -> write_v(m, rd, [k \in 1..VLEN |-> c_mul(A[k], B[k])])
      [] subop = 3 -> write_v(m, rd, vmac(m.v[rd], A, B))
      [] subop = 4 -> write_v(m, rd, [k \in 1..VLEN |-> c_div(A[k], B[k])])
      [] OTHER -> Raise(m)
  ELSE IF mapbits = MAP_VV_to_S THEN
    LET A == m.v[rs1]
        B == m.v[rs2]
    IN
    CASE subop = 0 -> write_s(m, rd, DotFold(A, B, TRUE, 1, Zero))
      [] subop = 1 -> write_s(m, rd, DotFold(A, B, FALSE, 1, Zero))
      [] subop = 2 -> write_s(m, rd, <<sat64(IamaxLoop(A, 1, 0, c_abs2(A[1])) * Pow2(FRAC_BITS)), 0>>)
      [] subop = 3 -> write_s(m, rd, SumFold(A, 1, Zero))
      [] subop = 4 -> write_s(m, rd, <<AsumFold(A, 1, 0), 0>>)
      [] OTHER -> Raise(m)
  ELSE
    LET A  == m.v[rs1]
        sB == m.s[rs2]
    IN
    CASE subop = 24 -> write_v(m, rd, [k \in 1..VLEN |-> c_add(A[k], sB)])
      [] subop = 25 -> write_v(m, rd, [k \in 1..VLEN |-> c_sub(A[k], sB)])
      [] subop = 26 -> write_v(m, rd, [k \in 1..VLEN |-> c_mul(A[k], sB)])
      [] subop = 27 -> write_v(m, rd, [k \in 1..VLEN |-> c_div(A[k], sB)])
      [] OTHER -> Raise(m)

\* the field taken as it is, without its sign
sign_extend_mut(val, bits) == val

\* (val ^ sign) - sign, for val below 2^bits
sign_extend(val, bits) ==
  LET sign == Pow2(bits - 1)
  IN (IF val >= sign THEN val - sign ELSE val + sign) - sign

\* the immediate taken as a register value without the change of format
q22_23_to_q32_32_pair_mut(imm90) ==
  LET re45 == get_bits(imm90, IMM_BITS - 1, 0)
      im45 == get_bits(imm90, 2 * IMM_BITS - 1, IMM_BITS)
  IN <<sat64(sign_extend(re45, IMM_BITS)), sat64(sign_extend(im45, IMM_BITS))>>

\* imm90 is the word's immediate field, given by the word itself: the real
\* part is its low IMM_BITS bits, the imaginary part the IMM_BITS bits above
q22_23_to_q32_32_pair(imm90) ==
  LET re45 == get_bits(imm90, IMM_BITS - 1, 0)
      im45 == get_bits(imm90, 2 * IMM_BITS - 1, IMM_BITS)
      re   == sign_extend(re45, IMM_BITS)
      im   == sign_extend(im45, IMM_BITS)
  IN <<sat64(re * Pow2(FRAC_BITS - IMM_FRAC_BITS)),
       sat64(im * Pow2(FRAC_BITS - IMM_FRAC_BITS))>>

exec_i(m, w) ==
  LET subop == get_bits(w, 119, 112)
      rd    == get_bits(w, 95, 93)
      rs1   == get_bits(w, 92, 90)
      imm90 == {i \in w : i <= 2 * IMM_BITS - 1}
      a     == m.s[rs1]
      cimm  == q22_23_to_q32_32_pair(imm90)
  IN
  CASE subop = 0 -> write_s(m, rd, cimm)
    [] subop = 1 -> write_s(m, rd, c_add(a, cimm))
    [] subop = 2 -> write_s(m, rd, c_mul(a, cimm))
    [] subop = 3 -> write_s(m, rd, c_sub(a, cimm))
    [] subop = 4 -> write_s(m, rd, c_div(a, cimm))
    [] subop = 5 -> write_s(m, rd, IF c_abs2(a) >= c_abs2(cimm) THEN a ELSE cimm)
    [] subop = 6 -> write_s(m, rd, IF c_abs2(a) <= c_abs2(cimm) THEN a ELSE cimm)
    [] subop = 16 -> write_s(m, rd, <<mul_q(a[1], cimm[1]), mul_q(a[2], cimm[1])>>)
    [] OTHER -> Raise(m)

\* exec_j with the offset taken from the instruction after the jump
exec_j_mut(m, w, program_len, real_only) ==
  LET subop == get_bits(w, 119, 112)
      offs  == get_bits_signed(w, 92, 60)
  IN
  IF subop # 0 THEN Raise(m)
  ELSE IF pred_true(m, real_only) THEN Done([m EXCEPT !.pc = m.pc + 1 + offs])
  ELSE Done([m EXCEPT !.pc = m.pc + 1])

exec_j(m, w, program_len, real_only) ==
  LET subop == get_bits(w, 119, 112)
      offs  == get_bits_signed(w, 92, 60)
  IN
  IF subop # 0 THEN Raise(m)
  ELSE IF pred_true(m, real_only) THEN Done([m EXCEPT !.pc = m.pc + offs])
  ELSE Done([m EXCEPT !.pc = m.pc + 1])

\* m.pc += 1 after a call that did not raise
\* the increment of pc left out
Advance_mut(res) == res

Advance(res) == IF res.err THEN res ELSE Done([res.m EXCEPT !.pc = res.m.pc + 1])

\* the bank id read from the two low bits of its field only
mbid_field_mut(w) == get_bits(w, 90, 89)

\* mbid = get_bits(w, 92,89)
mbid_field(w) == get_bits(w, 92, 89)

\* every lane of the source is stored, whatever the length says
vst_row_mut(row, src_v, L) ==
  [c \in 0..(Cols - 1) |->
     IF c < VLEN THEN src_v[c + 1] ELSE IF c < L THEN Zero ELSE row[c]]

\* the row after "for c in range(L): bank[mbid][r][c] = src[c] if c < vlen else (0,0)"
vst_row(row, src_v, L) ==
  [c \in 0..(Cols - 1) |->
     IF c < L THEN (IF c < VLEN THEN src_v[c + 1] ELSE Zero) ELSE row[c]]

exec_s(m, w) ==
  LET subop == get_bits(w, 119, 112)
      rc    == get_bits(w, 111, 111)
      reg3  == get_bits(w, 95, 93)
      mbid  == mbid_field(w)
      i16   == get_bits(w, 88, 73)
      j16   == get_bits(w, 72, 57)
      len16 == get_bits(w, 56, 41)
      L     == IF len16 # 0 THEN len16 ELSE VLEN
  IN
  IF mbid >= BANKS THEN Raise(m)
  ELSE CASE subop = 0 ->
         IF rc = 0 THEN
           IF i16 >= Rows \/ L > Cols THEN Raise(m)
           ELSE Advance(write_v(m, reg3,
                  [k \in 1..VLEN |-> IF k <= L THEN m.bank[mbid][i16][k - 1] ELSE Zero]))
         ELSE
           IF i16 >= Cols \/ L > Rows THEN Raise(m)
           ELSE Advance(write_v(m, reg3,
                  [k \in 1..VLEN |-> IF k <= L THEN m.bank[mbid][k - 1][i16] ELSE Zero]))
    [] subop = 1 ->
         LET src_v == m.v[reg3] IN
         IF rc = 0 THEN
           IF i16 >= Rows \/ L > Cols THEN Raise(m)
           ELSE Advance(Done([m EXCEPT !.bank[mbid][i16] = vst_row(@, src_v, L)]))
         ELSE
           IF i16 >= Cols \/ L > Rows THEN Raise(m)
           ELSE Advance(Done([m EXCEPT !.bank[mbid] =
                  [r \in 0..(Rows - 1) |->
                     IF r < L THEN [@[r] EXCEPT ![i16] = IF r < VLEN THEN src_v[r + 1] ELSE Zero]
                     ELSE @[r]]]))
    [] subop = 2 ->
         IF j16 >= Rows \/ i16 >= Cols THEN Raise(m)
         ELSE Advance(write_s(m, reg3, m.bank[mbid][j16][i16]))
    [] subop = 3 ->
         IF j16 >= Rows \/ i16 >= Cols THEN Raise(m)
         ELSE Advance(Done([m EXCEPT !.bank[mbid][j16][i16] = m.s[reg3]]))
    [] OTHER -> Raise(m)

\* a word of no known family is skipped
exec_one_mut(m, w, program_len, real_only) ==
  LET opc == get_bits(w, 127, 120)
  IN CASE opc = 1 -> Advance(exec_r(m, w))
       [] opc = 2 -> Advance(exec_i(m, w))
       [] opc = 3 -> exec_j(m, w, program_len, real_only)
       [] opc = 4 -> exec_s(m, w)
       [] OTHER -> Advance(Done(m))

exec_one(m, w, program_len, real_only) ==
  LET opc == get_bits(w, 127, 120)
  IN CASE opc = 1 -> Advance(exec_r(m, w))
       [] opc = 2 -> Advance(exec_i(m, w))
       [] opc = 3 -> exec_j(m, w, program_len, real_only)
       [] opc = 4 -> exec_s(m, w)
       [] OTHER -> Raise(m)

(***************************************************************************)
(* Assembler: tokens.                                                      *)
(*                                                                         *)
(* A source line is the list of tokens that tokenize() returns for it (the *)
(* empty list for a blank or comment-only line).  A token is one of:       *)
(*   W(name)      a bare word: a mnemonic, a register or a label reference *)
(*   LD(name)     a word that ends with ':' (name is the text before it)   *)
(*   IL(n)        an integer literal with value n                          *)
(*   CI(re, im)   the immediate c(re,im); a component is the decimal       *)
(*                num/den written <<num, den>>, den a power of two         *)
(*   CX(im)       the immediate c(0xZZ,im): the real component starts with *)
(*                0x and has a character that is no hex digit              *)
(***************************************************************************)
W(name) == [k |-> "w", name |-> name, n |-> 0, re |-> <<0, 1>>, im |-> <<0, 1>>]
LD(name) == [k |-> "ld", name |-> name, n |-> 0, re |-> <<0, 1>>, im |-> <<0, 1>>]
IL(n) == [k |-> "i", name |-> "", n |-> n, re |-> <<0, 1>>, im |-> <<0, 1>>]
CI(re, im) == [k |-> "c", name |-> "", n |-> 0, re |-> re, im |-> im]
CX(im) == [k |-> "cx", name |-> "0xZZ", n |-> 0, re |-> <<0, 1>>, im |-> im]

SRegNames == <<"s0", "s1", "s2", "s3", "s4", "s5", "s6", "s7">>
VRegNames == <<"v0", "v1", "v2", "v3", "v4", "v5", "v6", "v7">>

\* words that contain a '.', which the identifier pattern does not match
DottedWords == {"cmplt.re", "cmpgt.re", "cmple.re", "sld.xy", "sst.xy",
                "vld.rm", "vld.cm", "vst.rm", "vst.cm"}

\* re.fullmatch(r'[A-Za-z_]\w*', text) on the text of a word
IsIdent(name) == name # "" /\ name \notin DottedWords

is_scalar_reg(tok) == tok.k = "w" /\ \E i \in 1..8 : SRegNames[i] = tok.name

is_vector_reg(tok) == tok.k = "w" /\ \E i \in 1..8 : VRegNames[i] = tok.name

\* the register index of a token that is_scalar_reg or is_vector_reg accepted
parse_reg(tok) ==
  (CHOOSE i \in 1..8 : SRegNames[i] = tok.name \/ VRegNames[i] = tok.name) - 1

\* tokens[0].lower() as a mnemonic candidate
MnOf(tok) == IF tok.k = "w" THEN tok.name ELSE ""

(***************************************************************************)
(* Assembler: bit helpers and literals.                                    *)
(***************************************************************************)
AsmOk(word) == [ok |-> TRUE, word |-> word, line |-> 0, msg |-> ""]
AsmErr(line_no, msg) == [ok |-> FALSE, word |-> {}, line |-> line_no, msg |-> msg]
\* an exception that is no AsmError leaves assemble_text and main uncaught:
\* the traceback names no source line (line 0 stands for that)
AsmCrash(msg) == [ok |-> FALSE, word |-> {}, line |-> 0, msg |-> msg]

\* number of bits of a natural number below 2^30
BitLen(n) == IF n = 0 THEN 0 ELSE 1 + CHOOSE k \in BitsOf(n) : \A j \in BitsOf(n) : j <= k

\* minv <= val <= maxv for the field width, by the length of val in bits
\* (the same test as the comparison with 1 << width, for any width)
FitsField(val, width, signed) ==
  IF signed
  THEN IF val >= 0 THEN BitLen(val) <= width - 1 ELSE BitLen(-val - 1) <= width - 1
  ELSE val >= 0 /\ BitLen(val) <= width

\* the 1 bits of val, or of (1 << width) + val for a negative val
TwosBits(val, width) ==
  IF val >= 0 THEN BitsOf(val)
  ELSE {k \in 0..(width - 1) : k \notin BitsOf(-val - 1)}

\* set_bits that stores the magnitude of a negative value
set_bits_mut(word, val, hi, lo, signed) ==
  LET width == hi - lo + 1
  IN IF ~FitsField(val, width, signed) THEN [ok |-> FALSE, word |-> word]
     ELSE [ok |-> TRUE,
           word |-> {i \in word : i < lo \/ i > hi}
                    \cup {lo + k : k \in {x \in BitsOf(Abs(val)) : x < width}}]

\* set_bits: [ok, word]; not ok when val does not fit the field
set_bits(word, val, hi, lo, signed) ==
  LET width == hi - lo + 1
  IN IF ~FitsField(val, width, signed) THEN [ok |-> FALSE, word |-> word]
     ELSE [ok |-> TRUE,
           word |-> {i \in word : i < lo \/ i > hi}
                    \cup {lo + k : k \in {x \in TwosBits(val, width) : x < width}}]

RECURSIVE SetFields(_, _)
\* consecutive set_bits calls on one word, starting from word 0;
\* fields[i] = <<val, hi, lo, signed>>
SetFields(fields, n) ==
  IF n = 0 THEN [ok |-> TRUE, word |-> {}]
  ELSE LET prev == SetFields(fields, n - 1)
           f    == fields[n]
       IN IF ~prev.ok THEN prev ELSE set_bits(prev.word, f[1], f[2], f[3], f[4])

\* parse_int with a bits argument: [ok, val]
parse_int(tok, signed, bits) ==
  IF tok.k # "i" THEN [ok |-> FALSE, val |-> 0]
  ELSE IF bits > 0 /\ ~FitsField(tok.n, bits, signed) THEN [ok |-> FALSE, val |-> 0]
  ELSE [ok |-> TRUE, val |-> tok.n]

\* a / b rounded to the nearest integer, a tie to the even one (a >= 0)
RoundHalfEven(a, b) ==
  LET fl == a \div b
      rm == a % b
  IN IF 2 * rm < b THEN fl
     ELSE IF 2 * rm > b THEN fl + 1
     ELSE fl + (fl % 2)

\* the Decimal product num/den as the context keeps it: rounded to PREC
\* significant digits, written <<num2, den2>> with den2 a power of ten.
\* (num/den is 0 or has its first digit between 10^-4 and 10^3.)
DecimalMul(num, den) ==
  LET N == Abs(num)
      sg == IF num < 0 THEN -1 ELSE 1
  IN IF N = 0 THEN <<0, 1>>
     ELSE IF N >= den
     THEN LET e == CHOOSE x \in 0..3 : den * (10 ^ x) <= N /\ N < den * (10 ^ (x + 1))
          IN IF e >= PREC - 1
             THEN <<sg * RoundHalfEven(N, den * (10 ^ (e - PREC + 1))) * (10 ^ (e - PREC + 1)), 1>>
             ELSE <<sg * RoundHalfEven(N * (10 ^ (PREC - 1 - e)), den), 10 ^ (PREC - 1 - e)>>
     ELSE LET j == CHOOSE x \in 1..4 : N * (10 ^ x) >= den /\ N * (10 ^ (x - 1)) < den
          IN <<sg * RoundHalfEven(N * (10 ^ (PREC - 1 + j)), den), 10 ^ (PREC - 1 + j)>>

\* q_fixed_pack of the decimal num/den: [ok, val, msg]
q_fixed_pack(value, frac_bits, total_bits) ==
  LET scaled     == DecimalMul(value[1] * Pow2(frac_bits), value[2])
      scaled_num == scaled[1]
      den        == scaled[2]
  IN IF scaled_num % den # 0 THEN [ok |-> FALSE, val |-> 0, msg |-> "not exactly representable"]
     ELSE LET intval == scaled_num \div den
          IN IF intval < -Pow2(total_bits - 1) \/ intval > Pow2(total_bits - 1) - 1
             THEN [ok |-> FALSE, val |-> 0, msg |-> "out of range"]
             ELSE [ok |-> TRUE,
                   val |-> IF intval < 0 THEN Pow2(total_bits) + intval ELSE intval,
                   msg |-> ""]

(***************************************************************************)
(* Assembler: ISA tables.                                                  *)
(***************************************************************************)
OPCODES == [r |-> 1, i |-> 2, j |-> 3, s |-> 4]

R_SCALAR_UNARY ==
  [cneg |-> 0, conj |-> 1, csqrt |-> 2, cabs2 |-> 3, cabs |-> 4, creal |-> 5,
   cimag |-> 6, crecip |-> 7]

R_SCALAR_BINARY ==
  [cadd |-> 8, csub |-> 9, cmul |-> 10, cdiv |-> 11, cmaxabs |-> 12, cminabs |-> 13]
  @@ ("cmplt.re" :> 14) @@ ("cmpgt.re" :> 15) @@ ("cmple.re" :> 16)

R_VECTOR_LANE ==
  [vadd |-> 0, vsub |-> 1, vmul |-> 2, vmac |-> 3, vdiv |-> 4, vconj |-> 5]

R_REDUCTIONS == [dotc |-> 0, dotu |-> 1, iamax |-> 2, sum |-> 3, asum |-> 4]

R_VEC_SCALAR == [vsadd |-> 24, vssub |-> 25, vsmul |-> 26, vsdiv |-> 27, vscale |-> 28]

MAPBITS == [SS_to_S |-> 0, VV_to_V |-> 1, VV_to_S |-> 2, VS_to_V |-> 3]

I_SUBOPS ==
  [cloadi |-> 0, cadd_i |-> 1, cmul_i |-> 2, csub_i |-> 3, cdiv_i |-> 4,
   cmaxabs_i |-> 5, cminabs_i |-> 6, cscale_i |-> 16]

J_SUBOPS == [jrel |-> 0]

S_SUBOPS == [vld |-> 0, vst |-> 1] @@ ("sld.xy" :> 2) @@ ("sst.xy" :> 3)

(***************************************************************************)
(* Assembler: assemble_line.                                               *)
(***************************************************************************)
RL(d) == [k |-> "r", name |-> "", n |-> 0, re |-> d, im |-> <<0, 1>>]

\* parse_real_decimal: [ok, val]; an integer or real literal is a decimal
parse_real_decimal(tok) ==
  IF tok.k = "i" THEN [ok |-> TRUE, val |-> <<tok.n, 1>>]
  ELSE IF tok.k = "r" THEN [ok |-> TRUE, val |-> tok.re]
  ELSE [ok |-> FALSE, val |-> <<0, 1>>]

\* parse_imm_or_label with the distance taken from the next instruction
parse_imm_or_label_mut(tok, labels, pc_index) ==
  IF tok.k = "w" /\ IsIdent(tok.name)
  THEN IF tok.name \notin DOMAIN labels
       THEN [ok |-> FALSE, val |-> 0, msg |-> "unknown label"]
       ELSE [ok |-> TRUE, val |-> labels[tok.name] - (pc_index + 1), msg |-> ""]
  ELSE LET r == parse_int(tok, TRUE, 0)
       IN [ok |-> r.ok, val |-> r.val, msg |-> IF r.ok THEN "" ELSE "invalid integer literal"]

\* parse_imm_or_label: [ok, val, msg]
parse_imm_or_label(tok, labels, pc_index) ==
  IF tok.k = "w" /\ IsIdent(tok.name)
  THEN IF tok.name \notin DOMAIN labels
       THEN [ok |-> FALSE, val |-> 0, msg |-> "unknown label"]
       ELSE [ok |-> TRUE, val |-> labels[tok.name] - pc_index, msg |-> ""]
  ELSE LET r == parse_int(tok, TRUE, 0)
       IN [ok |-> r.ok, val |-> r.val, msg |-> IF r.ok THEN "" ELSE "invalid integer literal"]

\* the set_bits calls of one R-type branch, then its "if rd == 0" check
asm_r_fields(line_no, subop, mapbits, rd, rs1, rs2, zero_msg) ==
  LET r == SetFields(<< <<OPCODES.r, 127, 120, FALSE>>, <<0, 119, 112, FALSE>>,
                        <<subop, 119, 112, FALSE>>, <<mapbits, 97, 96, FALSE>>,
                        <<rd, 95, 93, FALSE>>, <<rs1, 92, 90, FALSE>>,
                        <<rs2, 89, 87, FALSE>>, <<0, 86, 71, FALSE>> >>, 8)
  IN IF ~r.ok THEN AsmErr(line_no, "value does not fit in field")
     ELSE IF rd = 0 THEN AsmErr(line_no, zero_msg)
     ELSE AsmOk(r.word)

S0_MSG == "writing to s0 is illegal (hard error)"
V0_MSG == "writing to v0 is illegal (hard error)"

asm_r(tokens, line_no, mn) ==
  IF mn \in DOMAIN R_SCALAR_UNARY THEN
    IF Len(tokens) # 3 THEN AsmErr(line_no, "expects 2 operands")
    ELSE IF ~(is_scalar_reg(tokens[2]) /\ is_scalar_reg(tokens[3]))
    THEN AsmErr(line_no, "requires scalar registers")
    ELSE asm_r_fields(line_no, R_SCALAR_UNARY[mn], MAPBITS.SS_to_S,
                      parse_reg(tokens[2]), parse_reg(tokens[3]), 0, S0_MSG)
  ELSE IF mn \in DOMAIN R_SCALAR_BINARY THEN
    IF Len(tokens) # 4 THEN AsmErr(line_no, "expects 3 operands")
    ELSE IF ~(is_scalar_reg(tokens[2]) /\ is_scalar_reg(tokens[3]) /\ is_scalar_reg(tokens[4]))
    THEN AsmErr(line_no, "requires scalar registers")
    ELSE asm_r_fields(line_no, R_SCALAR_BINARY[mn], MAPBITS.SS_to_S,
                      parse_reg(tokens[2]), parse_reg(tokens[3]), parse_reg(tokens[4]), S0_MSG)
  ELSE IF mn \in DOMAIN R_VECTOR_LANE THEN
    IF mn = "vconj" THEN
      IF Len(tokens) # 3 THEN AsmErr(line_no, "expects 2 operands")
      ELSE IF ~(is_vector_reg(tokens[2]) /\ is_vector_reg(tokens[3]))
      THEN AsmErr(line_no, "requires vector registers")
      ELSE asm_r_fields(line_no, R_VECTOR_LANE[mn], MAPBITS.VV_to_V,
                        parse_reg(tokens[2]), parse_reg(tokens[3]), 0, V0_MSG)
    ELSE
      IF Len(tokens) # 4 THEN AsmErr(line_no, "expects 3 operands")
      ELSE IF ~(is_vector_reg(tokens[2]) /\ is_vector_reg(tokens[3]) /\ is_vector_reg(tokens[4]))
      THEN AsmErr(line_no, "requires vector registers")
      ELSE asm_r_fields(line_no, R_VECTOR_LANE[mn], MAPBITS.VV_to_V,
                        parse_reg(tokens[2]), parse_reg(tokens[3]), parse_reg(tokens[4]), V0_MSG)
  ELSE IF mn \in DOMAIN R_REDUCTIONS THEN
    IF mn \in {"dotc", "dotu"} THEN
      IF Len(tokens) # 4 THEN AsmErr(line_no, "expects 3 operands")
      ELSE IF ~(is_scalar_reg(tokens[2]) /\ is_vector_reg(tokens[3]) /\ is_vector_reg(tokens[4]))
      THEN AsmErr(line_no, "requires sD, vA, vB")
      ELSE asm_r_fields(line_no, R_REDUCTIONS[mn], MAPBITS.VV_to_S,
                        parse_reg(tokens[2]), parse_reg(tokens[3]), parse_reg(tokens[4]), S0_MSG)
    ELSE
      IF Len(tokens) # 3 THEN AsmErr(line_no, "expects 2 operands")
      ELSE IF ~(is_scalar_reg(tokens[2]) /\ is_vector_reg(tokens[3]))
      THEN AsmErr(line_no, "requires sD, vA")
      ELSE asm_r_fields(line_no, R_REDUCTIONS[mn], MAPBITS.VV_to_S,
                        parse_reg(tokens[2]), parse_reg(tokens[3]), 0, S0_MSG)
  ELSE
    IF Len(tokens) # 4 THEN AsmErr(line_no, "expects 3 operands")
    ELSE IF ~(is_vector_reg(tokens[2]) /\ is_vector_reg(tokens[3]) /\ is_scalar_reg(tokens[4]))
    THEN AsmErr(line_no, "requires vD, vA, sB")
    ELSE asm_r_fields(line_no, R_VEC_SCALAR[mn], MAPBITS.VS_to_V,
                      parse_reg(tokens[2]), parse_reg(tokens[3]), parse_reg(tokens[4]), V0_MSG)

\* the I-type set_bits calls without the check of rd
asm_i_fields_mut(line_no, subop, rd, rs1, re_bits, im_bits) ==
  LET r == SetFields(<< <<OPCODES.i, 127, 120, FALSE>>, <<subop, 119, 112, FALSE>>,
                        <<rd, 95, 93, FALSE>>, <<rs1, 92, 90, FALSE>>,
                        <<re_bits, IMM_BITS - 1, 0, FALSE>>,
                        <<im_bits, 2 * IMM_BITS - 1, IMM_BITS, FALSE>> >>, 6)
  IN IF ~r.ok THEN AsmErr(line_no, "value does not fit in field")
     ELSE AsmOk(r.word)

\* the set_bits calls of an I-type branch, then its "if rd == 0" check
asm_i_fields(line_no, subop, rd, rs1, re_bits, im_bits) ==
  LET r == SetFields(<< <<OPCODES.i, 127, 120, FALSE>>, <<subop, 119, 112, FALSE>>,
                        <<rd, 95, 93, FALSE>>, <<rs1, 92, 90, FALSE>>,
                        <<re_bits, IMM_BITS - 1, 0, FALSE>>,
                        <<im_bits, 2 * IMM_BITS - 1, IMM_BITS, FALSE>> >>, 6)
  IN IF ~r.ok THEN AsmErr(line_no, "value does not fit in field")
     ELSE IF rd = 0 THEN AsmErr(line_no, S0_MSG)
     ELSE AsmOk(r.word)

\* the part of an I-type branch from the c(re,im) token on
asm_i_cimm(line_no, subop, rd, rs1, imm_tok) ==
  IF imm_tok.k = "cx" THEN AsmCrash("ValueError: invalid literal for int() with base 16")
  ELSE IF imm_tok.k # "c" THEN AsmErr(line_no, "requires c(re,im) as immediate")
  ELSE LET re_p == q_fixed_pack(imm_tok.re, IMM_FRAC_BITS, IMM_BITS)
           im_p == q_fixed_pack(imm_tok.im, IMM_FRAC_BITS, IMM_BITS)
       IN IF ~re_p.ok THEN AsmErr(line_no, re_p.msg)
          ELSE IF ~im_p.ok THEN AsmErr(line_no, im_p.msg)
          ELSE asm_i_fields(line_no, subop, rd, rs1, re_p.val, im_p.val)

asm_i(tokens, line_no, mn) ==
  IF mn = "cloadi" THEN
    IF Len(tokens) # 3 THEN AsmErr(line_no, "cloadi expects 2 operands")
    ELSE IF ~is_scalar_reg(tokens[2]) THEN AsmErr(line_no, "cloadi requires scalar destination sD")
    ELSE asm_i_cimm(line_no, I_SUBOPS[mn], parse_reg(tokens[2]), 0, tokens[3])
  ELSE
    IF Len(tokens) # 4 THEN AsmErr(line_no, "expects 3 operands")
    ELSE IF ~(is_scalar_reg(tokens[2]) /\ is_scalar_reg(tokens[3]))
    THEN AsmErr(line_no, "requires sD, sA, IMM")
    ELSE IF mn = "cscale_i" THEN
      LET val == parse_real_decimal(tokens[4])
          re_p == q_fixed_pack(val.val, IMM_FRAC_BITS, IMM_BITS)
      IN IF ~val.ok THEN AsmErr(line_no, "invalid real literal")
         ELSE IF ~re_p.ok THEN AsmErr(line_no, re_p.msg)
         ELSE asm_i_fields(line_no, I_SUBOPS[mn], parse_reg(tokens[2]), parse_reg(tokens[3]),
                           re_p.val, 0)
    ELSE asm_i_cimm(line_no, I_SUBOPS[mn], parse_reg(tokens[2]), parse_reg(tokens[3]), tokens[4])

asm_j(tokens, line_no, mn, labels, pc_index) ==
  IF Len(tokens) # 2 THEN AsmErr(line_no, "jrel expects 1 operand")
  ELSE LET offs == parse_imm_or_label(tokens[2], labels, pc_index)
           r    == SetFields(<< <<OPCODES.j, 127, 120, FALSE>>, <<J_SUBOPS[mn], 119, 112, FALSE>>,
                                <<1, 95, 93, FALSE>>, <<offs.val, 92, 60, TRUE>> >>, 4)
       IN IF ~offs.ok THEN AsmErr(line_no, offs.msg)
          ELSE IF ~r.ok THEN AsmErr(line_no, "value does not fit in field")
          ELSE AsmOk(r.word)

\* the vld / vst branch
asm_s_vec(tokens, line_no, mn) ==
  IF Len(tokens) # 6 THEN AsmErr(line_no, "expects 5 operands")
  ELSE IF ~is_vector_reg(tokens[2]) THEN AsmErr(line_no, "requires vector register in operand 1")
  ELSE LET reg3  == parse_reg(tokens[2])
           mbid  == parse_int(tokens[3], FALSE, 4)
           rc    == parse_int(tokens[4], FALSE, 1)
           idx16 == parse_int(tokens[5], FALSE, 16)
           len16 == parse_int(tokens[6], FALSE, 16)
           r     == SetFields(<< <<OPCODES.s, 127, 120, FALSE>>, <<S_SUBOPS[mn], 119, 112, FALSE>>,
                                 <<rc.val, 111, 111, FALSE>>, <<reg3, 95, 93, FALSE>>,
                                 <<mbid.val, 92, 89, FALSE>>, <<idx16.val, 88, 73, FALSE>>,
                                 <<0, 72, 57, FALSE>>, <<len16.val, 56, 41, FALSE>> >>, 8)
       IN IF ~mbid.ok THEN AsmErr(line_no, "invalid integer")
          ELSE IF ~(0 <= mbid.val /\ mbid.val < 4) THEN AsmErr(line_no, "mbid out of range")
          ELSE IF ~rc.ok \/ ~idx16.ok \/ ~len16.ok THEN AsmErr(line_no, "invalid integer")
          ELSE IF ~r.ok THEN AsmErr(line_no, "value does not fit in field")
          ELSE IF reg3 = 0 THEN AsmErr(line_no, V0_MSG)
          ELSE AsmOk(r.word)

\* the sld.xy and sst.xy branches; only sld.xy ends with "if reg3 == 0"
asm_s_xy(tokens, line_no, mn) ==
  IF Len(tokens) # 5 THEN AsmErr(line_no, "expects 4 operands")
  ELSE IF ~is_scalar_reg(tokens[2]) THEN AsmErr(line_no, "requires scalar register")
  ELSE LET reg3 == parse_reg(tokens[2])
           mbid == parse_int(tokens[3], FALSE, 4)
           x16  == parse_int(tokens[4], FALSE, 16)
           y16  == parse_int(tokens[5], FALSE, 16)
           r    == SetFields(<< <<OPCODES.s, 127, 120, FALSE>>, <<S_SUBOPS[mn], 119, 112, FALSE>>,
                                <<reg3, 95, 93, FALSE>>, <<mbid.val, 92, 89, FALSE>>,
                                <<x16.val, 88, 73, FALSE>>, <<y16.val, 72, 57, FALSE>>,
                                <<0, 56, 41, FALSE>> >>, 7)
       IN IF ~mbid.ok THEN AsmErr(line_no, "invalid integer")
          ELSE IF ~(0 <= mbid.val /\ mbid.val < 4) THEN AsmErr(line_no, "mbid out of range")
          ELSE IF ~x16.ok \/ ~y16.ok THEN AsmErr(line_no, "invalid integer")
          ELSE IF ~r.ok THEN AsmErr(line_no, "value does not fit in field")
          ELSE IF mn = "sld.xy" /\ reg3 = 0 THEN AsmErr(line_no, S0_MSG)
          ELSE AsmOk(r.word)

\* tokens is not empty (assemble_text only records lines with tokens)
assemble_line(tokens, line_no, labels, pc_index) ==
  LET mn == MnOf(tokens[1])
  IN IF mn \in DOMAIN R_SCALAR_UNARY \cup DOMAIN R_SCALAR_BINARY \cup DOMAIN R_VECTOR_LANE
              \cup DOMAIN R_REDUCTIONS \cup DOMAIN R_VEC_SCALAR
     THEN asm_r(tokens, line_no, mn)
     ELSE IF mn \in DOMAIN I_SUBOPS THEN asm_i(tokens, line_no, mn)
     ELSE IF mn \in DOMAIN J_SUBOPS THEN asm_j(tokens, line_no, mn, labels, pc_index)
     ELSE IF mn \in {"vld", "vst"} THEN asm_s_vec(tokens, line_no, mn)
     ELSE IF mn \in {"sld.xy", "sst.xy"} THEN asm_s_xy(tokens, line_no, mn)
     ELSE AsmErr(line_no, "unknown mnemonic")

(***************************************************************************)
(* Assembler: assemble_text (two passes).                                  *)
(***************************************************************************)
NoLabels == [x \in {} |-> 0]

RECURSIVE StripLabels_mut(_, _, _, _)
\* the label loop of one line without the "if lab in labels" check: a second
\* definition replaces the first
StripLabels_mut(rest, labels, pc_now, i) ==
  IF i > Len(rest) \/ rest[i].k # "ld"
  THEN [ok |-> TRUE, labels |-> labels, rest |-> SubSeq(rest, i, Len(rest)), msg |-> ""]
  ELSE LET lab == rest[i].name
       IN IF ~IsIdent(lab)
          THEN [ok |-> FALSE, labels |-> labels, rest |-> <<>>, msg |-> "invalid label"]
          ELSE StripLabels_mut(rest, (lab :> pc_now) @@ labels, pc_now, i + 1)

RECURSIVE StripLabels(_, _, _, _)
\* the "while rest_tokens and rest_tokens[0].endswith(':')" loop of one line:
\* [ok, labels, rest, msg]
StripLabels(rest, labels, pc_now, i) ==
  IF i > Len(rest) \/ rest[i].k # "ld"
  THEN [ok |-> TRUE, labels |-> labels, rest |-> SubSeq(rest, i, Len(rest)), msg |-> ""]
  ELSE LET lab == rest[i].name
       IN IF ~IsIdent(lab)
          THEN [ok |-> FALSE, labels |-> labels, rest |-> <<>>, msg |-> "invalid label"]
          ELSE IF lab \in DOMAIN labels
          THEN [ok |-> FALSE, labels |-> labels, rest |-> <<>>, msg |-> "duplicate label"]
          ELSE StripLabels(rest, (lab :> pc_now) @@ labels, pc_now, i + 1)

RECURSIVE Pass1_mut(_, _, _, _, _)
\* the first loop with the instruction index advanced by label-only lines too
Pass1_mut(lines, idx, labels, instrs, pc_now) ==
  IF idx > Len(lines)
  THEN [ok |-> TRUE, labels |-> labels, instrs |-> instrs, line |-> 0, msg |-> ""]
  ELSE IF lines[idx] = <<>> THEN Pass1_mut(lines, idx + 1, labels, instrs, pc_now)
  ELSE LET st == StripLabels(lines[idx], labels, pc_now, 1)
       IN IF ~st.ok
          THEN [ok |-> FALSE, labels |-> labels, instrs |-> instrs, line |-> idx, msg |-> st.msg]
          ELSE IF st.rest = <<>> THEN Pass1_mut(lines, idx + 1, st.labels, instrs, pc_now + 1)
          ELSE Pass1_mut(lines, idx + 1, st.labels, Append(instrs, <<idx, st.rest>>), pc_now + 1)

RECURSIVE Pass1(_, _, _, _, _)
\* the first loop of assemble_text from line idx on:
\* [ok, labels, instrs, line, msg], instrs a list of <<line number, tokens>>
Pass1(lines, idx, labels, instrs, pc_now) ==
  IF idx > Len(lines)
  THEN [ok |-> TRUE, labels |-> labels, instrs |-> instrs, line |-> 0, msg |-> ""]
  ELSE IF lines[idx] = <<>> THEN Pass1(lines, idx + 1, labels, instrs, pc_now)
  ELSE LET st == StripLabels(lines[idx], labels, pc_now, 1)
       IN IF ~st.ok
          THEN [ok |-> FALSE, labels |-> labels, instrs |-> instrs, line |-> idx, msg |-> st.msg]
          ELSE IF st.rest = <<>> THEN Pass1(lines, idx + 1, st.labels, instrs, pc_now)
          ELSE Pass1(lines, idx + 1, st.labels, Append(instrs, <<idx, st.rest>>), pc_now + 1)

RECURSIVE Pass2(_, _, _, _)
\* the second loop of assemble_text from instruction k on: [ok, words, line, msg]
Pass2(instrs, labels, k, enc) ==
  IF k > Len(instrs) THEN [ok |-> TRUE, words |-> enc, line |-> 0, msg |-> ""]
  ELSE LET r == assemble_line(instrs[k][2], instrs[k][1], labels, k - 1)
       IN IF ~r.ok THEN [ok |-> FALSE, words |-> <<>>, line |-> r.line, msg |-> r.msg]
          ELSE Pass2(instrs, labels, k + 1, Append(enc, r.word))

assemble_text(lines) ==
  LET p1 == Pass1(lines, 1, NoLabels, <<>>, 0)
  IN IF ~p1.ok THEN [ok |-> FALSE, words |-> <<>>, line |-> p1.line, msg |-> p1.msg]
     ELSE Pass2(p1.instrs, p1.labels, 1, <<>>)

(***************************************************************************)
(* Inputs: source programs for the assembler.                              *)
(***************************************************************************)
\* largest jump distance looked for in a word
MaxOffs == 4

\* most instructions of a generated jump program
MaxInstrs == 3

One == <<1, 1>>
Nil == <<0, 1>>

UnaryS == DOMAIN R_SCALAR_UNARY
BinaryS == DOMAIN R_SCALAR_BINARY
LaneV == DOMAIN R_VECTOR_LANE \ {"vconj"}
Red2 == {"dotc", "dotu"}
Red1 == DOMAIN R_REDUCTIONS \ Red2
VecScal == DOMAIN R_VEC_SCALAR
ImmArith == DOMAIN I_SUBOPS \ {"cloadi", "cscale_i"}

\* one line per register-writing mnemonic, with destination register index d
WritingLines(d) ==
  {<<W(mn), W(SRegNames[d + 1]), W("s1")>> : mn \in UnaryS}
  \cup {<<W(mn), W(SRegNames[d + 1]), W("s1"), W("s2")>> : mn \in BinaryS}
  \cup {<<W("vconj"), W(VRegNames[d + 1]), W("v1")>>}
  \cup {<<W(mn), W(VRegNames[d + 1]), W("v1"), W("v2")>> : mn \in LaneV}
  \cup {<<W(mn), W(SRegNames[d + 1]), W("v1"), W("v2")>> : mn \in Red2}
  \cup {<<W(mn), W(SRegNames[d + 1]), W("v1")>> : mn \in Red1}
  \cup {<<W(mn), W(VRegNames[d + 1]), W("v1"), W("s1")>> : mn \in VecScal}
  \cup {<<W("cloadi"), W(SRegNames[d + 1]), CI(One, Nil)>>}
  \cup {<<W(mn), W(SRegNames[d + 1]), W("s1"), CI(One, Nil)>> : mn \in ImmArith}
  \cup {<<W("cscale_i"), W(SRegNames[d + 1]), W("s1"), IL(1)>>}
  \cup {<<W("vld"), W(VRegNames[d + 1]), IL(0), IL(0), IL(1), IL(0)>>}
  \cup {<<W("sld.xy"), W(SRegNames[d + 1]), IL(0), IL(1), IL(1)>>}

cloadi_line(d, re, im) == <<W("cloadi"), W(SRegNames[d + 1]), CI(<<re, 1>>, <<im, 1>>)>>

\* programs of one writing instruction, alone or after a valid first line
WritingSources ==
  {<<ln>> : ln \in WritingLines(0) \cup WritingLines(2)}
  \cup {<<cloadi_line(1, 1, 0), ln>> : ln \in {x \in WritingLines(0) : x[1].name \in {"cadd", "vld", "cloadi"}}}

sst_line(d, mb, x, y) == <<W("sst.xy"), W(SRegNames[d + 1]), IL(mb), IL(x), IL(y)>>
vst_line(d, mb, rc, idx) == <<W("vst"), W(VRegNames[d + 1]), IL(mb), IL(rc), IL(idx), IL(0)>>
vsadd_line(d, a, b) == <<W("vsadd"), W(VRegNames[d + 1]), W(VRegNames[a + 1]), W(SRegNames[b + 1])>>

\* stores from a reserved register, alone and over a cell that holds a value
StoreSources ==
  {<<sst_line(0, 0, 1, 1)>>, <<vst_line(0, 0, 0, 1)>>, <<vst_line(0, 1, 1, 1)>>,
   <<cloadi_line(2, 1, -1), sst_line(2, 0, 1, 1), sst_line(0, 0, 1, 1)>>,
   <<cloadi_line(2, 1, -1), vsadd_line(1, 0, 2), vst_line(1, 0, 0, 1), vst_line(0, 0, 0, 1)>>,
   <<cloadi_line(2, 1, -1), vsadd_line(1, 0, 2), vst_line(1, 0, 0, 1)>>}

jrel_line(name) == <<W("jrel"), W(name)>>

\* instruction idx (0-based) of a jump program: the jump at index j, before it
\* and after it a cloadi; the first one sets s1 when armed
JumpInstr(idx, j, armed) ==
  IF idx = j THEN jrel_line("L")
  ELSE IF idx = 0 /\ armed THEN cloadi_line(1, 1, 0)
  ELSE cloadi_line(2, 1, 0)

RECURSIVE JumpLines(_, _, _, _, _, _)
\* the lines of instructions idx..k-1 of a jump program; label L is defined
\* before instruction d, on its own line or (same) on the instruction's line
JumpLines(idx, k, j, d, same, armed) ==
  IF idx = k THEN (IF d = k THEN <<<<LD("L")>>>> ELSE <<>>)
  ELSE (IF d = idx
        THEN IF same THEN << <<LD("L")>> \o JumpInstr(idx, j, armed) >>
             ELSE << <<LD("L")>>, <<>>, JumpInstr(idx, j, armed) >>
        ELSE << JumpInstr(idx, j, armed) >>)
       \o JumpLines(idx + 1, k, j, d, same, armed)

\* with the label on a line of its own, the text starts with another
\* label-only line
JumpSources ==
  {(IF same THEN <<>> ELSE <<<<LD("M")>>>>) \o JumpLines(0, k, j, d, same, armed) :
     k \in 1..MaxInstrs, j \in 0..(MaxInstrs - 1), d \in 0..MaxInstrs,
     same \in BOOLEAN, armed \in BOOLEAN}

\* the predicated loop of n rounds
LoopSource(n) ==
  << cloadi_line(1, n, 0),
     cloadi_line(2, 0, 0),
     <<LD("L")>>,
     <<W("cadd_i"), W("s2"), W("s2"), CI(One, Nil)>>,
     <<W("csub_i"), W("s1"), W("s1"), CI(One, Nil)>>,
     jrel_line("L") >>

LoopSources == {LoopSource(n) : n \in 1..MaxLoopN}

\* texts with more than one faulty line, faulty lines after blank lines and
\* valid lines, label clashes, and a malformed hex component
ErrorSources ==
  {<<cloadi_line(2, 1, 0), cloadi_line(0, 1, 0), vst_line(0, 0, 0, 1)>>,
   <<<<>>, cloadi_line(2, 1, 0), <<>>, <<W("nop")>>, cloadi_line(0, 1, 0)>>,
   <<cloadi_line(0, 1, 0), <<LD("L")>>, <<LD("L")>>>>,
   <<cloadi_line(2, 1, 0), <<W("cloadi"), W("s1"), CI(<<1, 8>>, Nil)>>>>,
   <<cloadi_line(2, 1, 0), <<W("cloadi"), W("s1"), CX(Nil)>>>>,
   <<<<W("cadd_i"), W("s2"), W("s2"), CX(One)>>, cloadi_line(0, 1, 0)>>}

\* a label defined twice (at one instruction index or at two, referenced or
\* not, on one line or on two), and a jrel to a label defined nowhere
LabelFaultSources ==
  {<<<<LD("L")>>, <<LD("L")>>, cloadi_line(2, 1, 0)>>,
   <<<<LD("L")>> \o cloadi_line(1, 1, 0), <<LD("L")>> \o cloadi_line(2, 1, 0)>>,
   <<<<LD("L"), LD("L")>> \o cloadi_line(2, 1, 0)>>,
   <<<<LD("L")>>, jrel_line("L"), <<LD("L")>>>>,
   <<cloadi_line(1, 1, 0), <<LD("L")>>, jrel_line("L"), <<>>, <<LD("M")>>, <<LD("L")>>>>,
   <<jrel_line("L")>>,
   <<<<LD("M")>>, cloadi_line(2, 1, 0), jrel_line("L")>>}

\* the least and the greatest immediate component
ImmMin == <<-Pow2(IMM_BITS - 1), Pow2(IMM_FRAC_BITS)>>
ImmMax == <<Pow2(IMM_BITS - 1) - 1, Pow2(IMM_FRAC_BITS)>>

\* one-line programs with operands other than the small ones: high register
\* numbers, negative and extreme immediates, literal jump distances, the
\* largest 16-bit values
EncodeSources ==
  {<<ln>> : ln \in
     {<<W("cadd"), W("s7"), W("s5"), W("s6")>>, <<W("conj"), W("s3"), W("s4")>>,
      <<W("vmac"), W("v7"), W("v6"), W("v5")>>, <<W("vconj"), W("v3"), W("v4")>>,
      <<W("dotc"), W("s6"), W("v7"), W("v5")>>, <<W("iamax"), W("s5"), W("v6")>>,
      <<W("vsmul"), W("v4"), W("v7"), W("s6")>>,
      <<W("cloadi"), W("s3"), CI(ImmMin, ImmMax)>>,
      <<W("cloadi"), W("s5"), CI(<<-1, 1>>, <<-1, Pow2(IMM_FRAC_BITS)>>)>>,
      <<W("cdiv_i"), W("s6"), W("s5"), CI(ImmMax, ImmMin)>>,
      <<W("cscale_i"), W("s2"), W("s7"), RL(<<-3, 2>>)>>,
      <<W("jrel"), IL(-5)>>, <<W("jrel"), IL(1000000)>>, <<W("jrel"), IL(-1000000)>>,
      <<W("vld"), W("v5"), IL(3), IL(1), IL(65535), IL(4660)>>,
      <<W("vst"), W("v6"), IL(2), IL(0), IL(258), IL(65535)>>,
      <<W("sld.xy"), W("s7"), IL(3), IL(65535), IL(1)>>,
      <<W("sst.xy"), W("s6"), IL(1), IL(2), IL(65535)>>}}

Sources ==
  WritingSources \cup StoreSources \cup JumpSources \cup LoopSources \cup ErrorSources
  \cup LabelFaultSources \cup EncodeSources

(***************************************************************************)
(* Inputs: hex programs given to the emulator directly.                    *)
(***************************************************************************)
RWord(subop, mapbits, rd, rs1, rs2) ==
  MkWord({<<1, 120>>, <<subop, 112>>, <<mapbits, 96>>, <<rd, 93>>, <<rs1, 90>>, <<rs2, 87>>})

\* re and im are the immediate components in units of 2^-IMM_FRAC_BITS
IWord(subop, rd, rs1, re, im) ==
  MkWord({<<2, 120>>, <<subop, 112>>, <<rd, 93>>, <<rs1, 90>>})
  \cup {k : k \in TwosBits(re, IMM_BITS)}
  \cup {IMM_BITS + k : k \in TwosBits(im, IMM_BITS)}

JWord(subop, reg, offs) ==
  MkWord({<<3, 120>>, <<subop, 112>>, <<reg, 93>>}) \cup {60 + k : k \in TwosBits(offs, 33)}

SWord(subop, rc, reg3, mbid, i16, j16, len16) ==
  MkWord({<<4, 120>>, <<subop, 112>>, <<rc, 111>>, <<reg3, 93>>, <<mbid, 89>>,
          <<i16, 73>>, <<j16, 57>>, <<len16, 41>>})

\* 1.0 as an immediate component
ImmOne == Pow2(IMM_FRAC_BITS)

RWords ==
  {RWord(subop, mapbits, rd, 1, 2) :
     subop \in {0, 1, 3, 7, 8, 10, 11, 17, 24, 26}, mapbits \in 0..3, rd \in {0, 2}}

IWords ==
  {IWord(subop, rd, 1, ImmOne, -ImmOne) : subop \in {0, 1, 2, 3, 4, 5, 6, 16, 7}, rd \in {0, 2}}

JWords ==
  {JWord(0, reg, offs) : reg \in {0, 1, 2}, offs \in {-3, -2, -1, 0, 1, 2, 3}}
  \cup {JWord(1, 1, 1)}

SWords ==
  {SWord(subop, rc, reg3, mbid, i16, 1, 0) :
     subop \in 0..3, rc \in {0, 1}, reg3 \in {0, 1}, mbid \in {0}, i16 \in {1, Rows}}
  \cup {SWord(subop, 0, reg3, 4, 1, 1, 0) : subop \in 0..3, reg3 \in {0, 1}}
  \cup {SWord(4, 0, 1, 0, 1, 1, 0), SWord(0, 0, 0, 0, 1, 1, Cols + 1),
        SWord(1, 0, 1, 0, 1, 1, 1)}

BadOpcodeWords == {MkWord({<<0, 120>>, <<2, 93>>}), MkWord({<<5, 120>>, <<2, 93>>})}

TestWords == RWords \cup IWords \cup JWords \cup SWords \cup BadOpcodeWords

\* instructions that give s1, s2 and v1 a value before the word under test
Setups ==
  {<<>>,
   <<IWord(0, 1, 0, ImmOne, 0), IWord(0, 2, 0, -ImmOne, ImmOne)>>,
   <<IWord(0, 1, 0, 0, ImmOne), IWord(0, 2, 0, ImmOne, 0), RWord(24, 3, 1, 0, 2)>>}

RawPrograms == {pre \o <<w>> : pre \in Setups, w \in TestWords}

(***************************************************************************)
(* The state machine: assembler main, then emulator main.                  *)
(***************************************************************************)
NoErr == [line |-> 0, msg |-> ""]

Mach == [pc |-> pc, s |-> s, v |-> v, bank |-> bank]

\* the emulator before its first step, with its options
StartMachine ==
  /\ asm_err = NoErr
  /\ pc = MachineInit.pc
  /\ s = MachineInit.s
  /\ v = MachineInit.v
  /\ bank = MachineInit.bank
  /\ step = 0
  /\ status = "none"
  /\ max_steps \in 0..MaxSteps
  /\ pred_uses_real_only \in BOOLEAN

\* assembler run on a source text, emulator run on its output
Init ==
  /\ StartMachine
  /\ out = <<>>
  /\ phase = "asm"
  /\ src \in Sources
  /\ prog = <<>>

\* emulator run on a given hex file
InitEmu ==
  /\ StartMachine
  /\ out = <<>>
  /\ phase = "run"
  /\ src = <<>>
  /\ prog \in RawPrograms

\* assembler main: assembly succeeds and the words are written
AssembleOk ==
  /\ phase = "asm"
  /\ \E r \in {assemble_text(src)} :
        /\ r.ok
        /\ out' = r.words
  /\ phase' = "load"
  /\ UNCHANGED <<src, asm_err, prog, pc, s, v, bank, step, max_steps, pred_uses_real_only, status>>

\* assembler main: AsmError, message printed, exit 1, nothing written; any
\* other exception ends the process with a traceback, nothing written
AssembleFail ==
  /\ phase = "asm"
  /\ \E r \in {assemble_text(src)} :
        /\ ~r.ok
        /\ asm_err' = [line |-> r.line, msg |-> r.msg]
        /\ status' = IF r.line = 0 THEN "asm_crash" ELSE "asm_error"
  /\ phase' = "halt"
  /\ UNCHANGED <<src, out, prog, pc, s, v, bank, step, max_steps, pred_uses_real_only>>

\* emulator main: load_hex of the assembler's output
Load ==
  /\ phase = "load"
  /\ prog' = out
  /\ phase' = "run"
  /\ UNCHANGED <<src, out, asm_err, pc, s, v, bank, step, max_steps, pred_uses_real_only, status>>

\* prog[m.pc]: a list index below 0 counts from the end of the list
Fetch(p, i) == IF i < 0 THEN p[Len(p) + i + 1] ELSE p[i + 1]

\* the loop condition without the lower limit of pc
LoopCond_neg(p, n, st, mx) == p < n /\ st < mx

\* the loop condition with the ceiling off by one
LoopCond_mut(p, n, st, mx) == 0 <= p /\ p < n /\ st <= mx

\* the condition of the run loop
LoopCond(p, n, st, mx) == 0 <= p /\ p < n /\ st < mx

\* one iteration of the run loop that completes
StepOk ==
  /\ phase = "run"
  /\ LoopCond(pc, Len(prog), step, max_steps)
  /\ \E res \in {exec_one(Mach, Fetch(prog, pc), Len(prog), pred_uses_real_only)} :
        /\ ~res.err
        /\ pc' = res.m.pc
        /\ s' = res.m.s
        /\ v' = res.m.v
        /\ bank' = res.m.bank
  /\ step' = step + 1
  /\ UNCHANGED <<phase, src, out, asm_err, prog, max_steps, pred_uses_real_only, status>>

\* one iteration of the run loop that raises RuntimeError: the run is over
StepError ==
  /\ phase = "run"
  /\ LoopCond(pc, Len(prog), step, max_steps)
  /\ \E res \in {exec_one(Mach, Fetch(prog, pc), Len(prog), pred_uses_real_only)} :
        /\ res.err
        /\ pc' = res.m.pc
        /\ s' = res.m.s
        /\ v' = res.m.v
        /\ bank' = res.m.bank
  /\ phase' = "halt"
  /\ status' = "error"
  /\ UNCHANGED <<src, out, asm_err, prog, step, max_steps, pred_uses_real_only>>

\* the loop condition is false: the final message is printed
Exit ==
  /\ phase = "run"
  /\ ~LoopCond(pc, Len(prog), step, max_steps)
  /\ phase' = "halt"
  /\ status' = IF ~(0 <= pc /\ pc < Len(prog)) THEN "pc_out" ELSE "max_steps"
  /\ UNCHANGED <<src, out, asm_err, prog, pc, s, v, bank, step, max_steps, pred_uses_real_only>>

NextEmu == StepOk \/ StepError \/ Exit

Next == AssembleOk \/ AssembleFail \/ Load \/ StepOk \/ StepError \/ Exit

Spec == Init /\ [][Next]_vars

SpecEmu == InitEmu /\ [][NextEmu]_vars

\* register values: zero, one, a small value with both parts, the largest
\* real value, and the value with the least real and the largest imaginary part
CVals == {Zero, <<Pow2(FRAC_BITS), 0>>, <<-3, 2>>, <<RAW_MAX, 0>>, <<RAW_MIN, RAW_MAX>>}

\* vector values: every lane the same, or one lane other than the rest
Vecs == {[k \in 1..VLEN |-> IF k = j THEN a ELSE b] : j \in 1..VLEN, a \in CVals, b \in CVals}

\* the register files with s1, s2 and v1, v2, v3 given
SRegs(a, b) == [i \in 0..7 |-> IF i = 1 THEN a ELSE IF i = 2 THEN b ELSE Zero]
VRegs(x, y, z) ==
  [i \in 0..7 |-> IF i = 1 THEN x ELSE IF i = 2 THEN y ELSE IF i = 3 THEN z ELSE ZeroVec]

\* the program is one word of W, and s1, s2, v1, v2, v3 hold values of the
\* sets As, Bs, Xs, Ys, Zs
ExecCase(Ws, As, Bs, Xs, Ys, Zs) ==
  \E w \in Ws, a \in As, b \in Bs, x \in Xs, y \in Ys, z \in Zs :
    /\ prog = <<w>>
    /\ s = SRegs(a, b)
    /\ v = VRegs(x, y, z)

\* one R-type or I-type word with the registers it reads: vmac with a
\* destination apart from and equal to its sources, the reductions, the
\* divisions, and words that raise
ExecCases ==
  \/ ExecCase({RWord(3, MAP_VV_to_V, 3, 1, 2)}, {Zero}, {Zero},
              Vecs, Vecs, {ZeroVec, [k \in 1..VLEN |-> <<-3, 2>>]})
  \/ ExecCase({RWord(3, MAP_VV_to_V, 1, 1, 2), RWord(3, MAP_VV_to_V, 2, 1, 2),
               RWord(1, MAP_VV_to_S, 3, 1, 2), RWord(4, MAP_VV_to_V, 3, 1, 2)},
              {Zero}, {Zero}, Vecs, Vecs, {ZeroVec})
  \/ ExecCase({RWord(3, MAP_VV_to_V, 1, 1, 1), RWord(3, MAP_VV_to_S, 3, 1, 0),
               RWord(2, MAP_VV_to_S, 3, 1, 0), RWord(2, MAP_VV_to_S, 0, 1, 0), RWord(3, MAP_VV_to_V, 0, 1, 1),
               RWord(6, MAP_VV_to_S, 3, 1, 0)},
              {Zero}, {Zero}, Vecs, {ZeroVec}, {ZeroVec})
  \/ ExecCase({RWord(27, MAP_VS_to_V, 3, 1, 2)}, {Zero}, CVals, Vecs, {ZeroVec}, {ZeroVec})
  \/ ExecCase({RWord(2, MAP_VV_to_S, 3, 1, 0), RWord(3, MAP_VV_to_S, 3, 1, 0)},
              {Zero}, {Zero}, [1..VLEN -> CVals], {ZeroVec}, {ZeroVec})
  \/ ExecCase({SWord(3, 0, 1, 0, 1, 1, 0), SWord(1, 0, 1, 0, 1, 0, 0), SWord(1, 1, 1, 1, 0, 0, 0)},
              CVals, {Zero}, Vecs, {ZeroVec}, {ZeroVec})
  \/ ExecCase({RWord(subop, MAP_SS_to_S, 3, 1, 2) : subop \in {0, 1, 3, 4, 5, 6, 8, 9, 10}}
              \cup {IWord(subop, 3, 1, ImmOne, -ImmOne) : subop \in {1, 2, 3, 16}}
              \cup {IWord(0, 3, 0, Pow2(IMM_BITS - 1) - 1, -Pow2(IMM_BITS - 1))},
              CVals, CVals, {ZeroVec}, {ZeroVec}, {ZeroVec})
  \/ ExecCase({RWord(11, MAP_SS_to_S, 3, 1, 2), RWord(7, MAP_SS_to_S, 3, 2, 0),
               IWord(4, 3, 1, 0, 0), IWord(4, 3, 1, ImmOne, -ImmOne)},
              CVals, CVals, {ZeroVec}, {ZeroVec}, {ZeroVec})

\* the emulator in the middle of a run, about to execute the last word of
\* its program with the registers an earlier part of the run has left
InitExec ==
  /\ ExecCases
  /\ bank = MachineInit.bank
  /\ pc = 0
  /\ step = 0
  /\ max_steps = MaxSteps
  /\ pred_uses_real_only = TRUE
  /\ status = "none"
  /\ asm_err = NoErr
  /\ out = <<>>
  /\ phase = "run"
  /\ src = <<>>

SpecExec == InitExec /\ [][NextEmu]_vars

(***************************************************************************)
(* Matrix banks: S-type source lines and S-type words on a filled bank.    *)
(***************************************************************************)
\* a vld or vst line as the assembler reads it: register, bank, rc, idx16, len16
vec_line(mn, d, mb, rc, idx, len) ==
  <<W(mn), W(VRegNames[d + 1]), IL(mb), IL(rc), IL(idx), IL(len)>>
\* a vld or vst line with a suffixed or plain mnemonic and the operands
\* register, bank, i16, j16
vec_line4(mn, d, mb, i, j) == <<W(mn), W(VRegNames[d + 1]), IL(mb), IL(i), IL(j)>>
sld_line(d, mb, x, y) == <<W("sld.xy"), W(SRegNames[d + 1]), IL(mb), IL(x), IL(y)>>

\* bank operands inside and outside 0..3
BankIds == {-1, 0, 3, 4, 15, 16}

\* one S-type line with every bank operand; vld and vst lines with a length
\* operand; vld and vst lines of the suffixed four-operand form; a store and
\* the loads that read it back
MemSources ==
  {<<vec_line(mn, 1, mb, 0, 1, 0)>> : mn \in {"vld", "vst"}, mb \in BankIds}
  \cup {<<sld_line(1, mb, 1, 2)>> : mb \in BankIds}
  \cup {<<sst_line(1, mb, 1, 2)>> : mb \in BankIds}
  \cup {<<vec_line(mn, 1, 0, rc, 1, len)>> : mn \in {"vld", "vst"}, rc \in {0, 1}, len \in {1, VLEN}}
  \cup {<<vec_line4(mn, 1, 0, i, j)>> :
          mn \in {"vld", "vld.rm", "vld.cm", "vst", "vst.rm", "vst.cm"}, i \in {0, 1}, j \in {0, 2}}
  \cup {<<cloadi_line(1, 1, -1), sst_line(1, 1, x, y), vec_line("vld", 1, 1, 0, x, 0),
           sld_line(2, 1, x, y)>> : x \in {0, 1}, y \in {0, 2}}

\* every cell of bank 0 holds a value of its own, the other banks are clear
PatternBank ==
  [b \in 0..(BANKS - 1) |-> [r \in 0..(Rows - 1) |-> [c \in 0..(Cols - 1) |->
     IF b = 0 THEN <<r + 1, c + 1>> ELSE Zero]]]
\* a vector whose lanes differ from each other and from every bank cell
LaneVec == [k \in 1..VLEN |-> <<k, -k>>]

\* one S-type word with every orientation, bank, index and length field
MemWords ==
  {SWord(subop, rc, 1, mbid, i16, j16, len16) :
     subop \in 0..3, rc \in {0, 1}, mbid \in {0, 1, 4, 15},
     i16 \in {0, 1, Rows - 1, Rows}, j16 \in {0, 2, Cols}, len16 \in {0, 1, VLEN + 1, Cols + 1}}
\* a row-major vld from bank 0 and a column-major vst into bank 1 at one cell
TransposePrograms ==
  {<<SWord(0, 0, 1, 0, i, j, 0), SWord(1, 1, 1, 1, i, j, 0)>> :
     i \in 0..(Rows - 1), j \in 0..(Cols - 1)}
\* sst.xy of s1 to a cell of bank 1, a row-major vld of row x, sld.xy of the cell
CellPrograms ==
  {<<SWord(3, 0, 1, 1, x, y, 0), SWord(0, 0, 1, 1, x, 0, 0), SWord(2, 0, 2, 1, x, y, 0)>> :
     x \in 0..(Rows - 1), y \in 0..(Cols - 1)}
\* one R-type, I-type or J-type word run on the filled registers and bank
OtherPrograms == {<<w>> : w \in RWords \cup IWords \cup JWords}

MemPrograms ==
  {<<w>> : w \in MemWords} \cup TransposePrograms \cup CellPrograms \cup OtherPrograms

\* the assembler on an S-type source, or the emulator in the middle of a run
\* with a filled bank 0, about to execute the last S-type words of its program
InitMem ==
  /\ asm_err = NoErr
  /\ pc = 0
  /\ step = 0
  /\ status = "none"
  /\ max_steps = MaxSteps
  /\ pred_uses_real_only = TRUE
  /\ out = <<>>
  /\ \/ /\ phase = "asm"
        /\ src \in MemSources
        /\ prog = <<>>
        /\ s = MachineInit.s
        /\ v = MachineInit.v
        /\ bank = MachineInit.bank
     \/ /\ phase = "run"
        /\ src = <<>>
        /\ prog \in MemPrograms
        /\ s = SRegs(<<-3, 2>>, Zero)
        /\ v = VRegs(LaneVec, ZeroVec, ZeroVec)
        /\ bank = PatternBank

SpecMem == InitMem /\ [][Next]_vars

(***************************************************************************)
(* Scalar arithmetic: short programs on given s1 and s2.                   *)
(***************************************************************************)
\* components: both ends of the range, integers, and values below one unit
QVals ==
  {RAW_MIN, RAW_MIN + 1, -2 * Pow2(FRAC_BITS), -Pow2(FRAC_BITS), -3, 0, 1, 3, 5,
   Pow2(FRAC_BITS), 2 * Pow2(FRAC_BITS), RAW_MAX}

QPairs == QVals \X QVals

\* real values around zero and one, and the ends of the range
RVals ==
  (-(Pow2(FRAC_BITS) + 2))..(Pow2(FRAC_BITS) + 2)
    \cup {RAW_MIN, RAW_MIN + 1, RAW_MAX - 1, RAW_MAX}

\* conj s3, s1 ; conj s4, s3
ConjProgram == <<RWord(1, MAP_SS_to_S, 3, 1, 0), RWord(1, MAP_SS_to_S, 4, 3, 0)>>

\* cmul s3, s1, s2 ; cdiv s4, s1, s2 ; cabs2 s5, s2
BinProgram ==
  <<RWord(10, MAP_SS_to_S, 3, 1, 2), RWord(11, MAP_SS_to_S, 4, 1, 2),
    RWord(3, MAP_SS_to_S, 5, 2, 0)>>

\* cneg s4, s1 ; cmul s3, s1, s2 ; cmul s5, s2, s1 ; cmul s6, s4, s2
MulProgram ==
  <<RWord(0, MAP_SS_to_S, 4, 1, 0), RWord(10, MAP_SS_to_S, 3, 1, 2),
    RWord(10, MAP_SS_to_S, 5, 2, 1), RWord(10, MAP_SS_to_S, 6, 4, 2)>>

\* words that no branch of exec_one, exec_r, exec_i, exec_j or exec_s takes
UnknownWords ==
  {MkWord({<<opc, 120>>, <<3, 93>>, <<1, 90>>, <<2, 87>>}) : opc \in {0, 5, 6, 255}}
  \cup {RWord(subop, MAP_SS_to_S, 3, 1, 2) : subop \in {17, 24, 255}}
  \cup {RWord(subop, MAP_VV_to_V, 3, 1, 2) : subop \in {6, 24}}
  \cup {RWord(subop, MAP_VV_to_S, 3, 1, 2) : subop \in {5, 24}}
  \cup {RWord(subop, MAP_VS_to_V, 3, 1, 2) : subop \in {0, 23, 28}}
  \cup {IWord(subop, 3, 1, ImmOne, ImmOne) : subop \in {7, 15, 17}}
  \cup {JWord(subop, 1, 1) : subop \in {1, 2}}
  \cup {SWord(subop, 0, 3, 0, 1, 1, 0) : subop \in {4, 255}}

\* cmul s3, s1, s2 ; then a word of UnknownWords
UnknownPrograms == {<<RWord(10, MAP_SS_to_S, 3, 1, 2), w>> : w \in UnknownWords}

\* the emulator about to run one of the programs, the registers and the
\* banks as an earlier part of the run has left them
InitArith ==
  /\ \/ /\ prog = ConjProgram
        /\ \E a \in QPairs : s = SRegs(a, Zero)
        /\ v = MachineInit.v
        /\ bank = MachineInit.bank
     \/ /\ prog = BinProgram
        /\ \E a \in QPairs, b \in QPairs : s = SRegs(a, b)
        /\ v = MachineInit.v
        /\ bank = MachineInit.bank
     \/ /\ prog = MulProgram
        /\ \E x \in RVals, y \in RVals : s = SRegs(<<x, 0>>, <<y, 0>>)
        /\ v = MachineInit.v
        /\ bank = MachineInit.bank
     \/ /\ prog \in UnknownPrograms
        /\ \E a \in CVals, b \in CVals : s = SRegs(a, b)
        /\ v = VRegs(LaneVec, LaneVec, ZeroVec)
        /\ bank = PatternBank
  /\ pc = 0
  /\ step = 0
  /\ max_steps = MaxSteps
  /\ pred_uses_real_only = TRUE
  /\ status = "none"
  /\ asm_err = NoErr
  /\ out = <<>>
  /\ phase = "run"
  /\ src = <<>>

SpecArith == InitArith /\ [][NextEmu]_vars

\* recip_q is called by no instruction (crecip divides with c_div): it is
\* applied on its own to every value of the range, a in s1 and the result in s3
InitFn ==
  /\ \E a \in RAW_MIN..RAW_MAX : s = SRegs(<<a, 0>>, Zero)
  /\ v = MachineInit.v
  /\ bank = MachineInit.bank
  /\ pc = 0
  /\ step = 0
  /\ max_steps = 0
  /\ pred_uses_real_only = TRUE
  /\ status = "none"
  /\ asm_err = NoErr
  /\ out = <<>>
  /\ prog = <<>>
  /\ phase = "fn"
  /\ src = <<>>

\* one call of recip_q
ApplyRecip ==
  /\ phase = "fn"
  /\ s' = [s EXCEPT ![3] = <<recip_q(s[1][1]), 0>>]
  /\ phase' = "halt"
  /\ UNCHANGED <<src, out, asm_err, prog, pc, v, bank, step, max_steps, pred_uses_real_only, status>>

SpecFn == InitFn /\ [][ApplyRecip]_vars

\* hex programs for the termination check: every jump of the pool, and one
\* word for every other way a step can end
RunWords ==
  {JWord(0, 1, -2), JWord(0, 1, -1), JWord(0, 1, 0), JWord(0, 1, 3), JWord(0, 2, 1),
   JWord(1, 1, 1), MkWord({<<5, 120>>, <<2, 93>>}),
   RWord(8, 0, 2, 1, 2), RWord(8, 0, 0, 1, 2),
   SWord(3, 0, 1, 0, 1, 1, 0), SWord(0, 0, 1, 0, Rows, 1, 0)}

RunPrograms ==
  {pre \o <<w>> : pre \in {<<>>, <<IWord(0, 1, 0, ImmOne, 0), IWord(0, 2, 0, -ImmOne, ImmOne)>>},
                 w \in RunWords}

InitRun ==
  /\ StartMachine
  /\ out = <<>>
  /\ phase = "run"
  /\ src = <<>>
  /\ prog \in RunPrograms

SpecRun == InitRun /\ [][NextEmu]_vars

\* a small set of sources whose runs end in every way: the loops, the
\* stores, and a load from outside the bank
SmallSources ==
  LoopSources \cup StoreSources \cup {<<<<W("sld.xy"), W("s1"), IL(0), IL(Cols), IL(0)>>>>}

\* emulator run on the hex file the assembler wrote for a source text
InitHex ==
  /\ StartMachine
  /\ phase = "run"
  /\ src \in SmallSources
  /\ assemble_text(src).ok
  /\ out = assemble_text(src).words
  /\ prog = out

SpecHex == InitHex /\ [][NextEmu]_vars

\* immediate components in steps of half a unit of the last place, from
\* below the least to above the greatest value of the field
ImmGrid ==
  {<<n, Pow2(IMM_FRAC_BITS + 1)>> : n \in (-Pow2(IMM_BITS) - 2)..(Pow2(IMM_BITS) + 1)}

\* the components of ImmGrid that are multiples of the unit and in range
ImmExact ==
  {d \in ImmGrid : d[1] % 2 = 0 /\ -Pow2(IMM_BITS) <= d[1] /\ d[1] <= Pow2(IMM_BITS) - 2}

\* components at and around the limits, a multiple and a non-multiple
ImmEdge ==
  {d \in ImmGrid : d[1] \in {-Pow2(IMM_BITS) - 2, -Pow2(IMM_BITS) - 1, -Pow2(IMM_BITS), -2, 0, 1,
                              Pow2(IMM_BITS) - 2, Pow2(IMM_BITS) - 1, Pow2(IMM_BITS)}}

\* one I-type line per pair of components: every pair of valid components,
\* and every component next to an edge component, for cloadi; edge pairs
\* for the other mnemonics and destinations
ImmPairs ==
  {p \in ImmGrid \X ImmGrid :
     \/ p[1] \in ImmExact \cup ImmEdge /\ p[2] \in ImmExact \cup ImmEdge
     \/ p[1] \in ImmEdge \/ p[2] \in ImmEdge}

\* 1.0000152587890625: more significant digits than the context keeps
LongOne == <<Pow2(16) + 1, Pow2(16)>>

ImmSources ==
  {<<<<W("cloadi"), W("s1"), CI(p[1], p[2])>>>> : p \in ImmPairs}
  \cup {<<<<W("cloadi"), W("s1"), CI(LongOne, Nil)>>>>, <<<<W("cloadi"), W("s1"), CI(One, LongOne)>>>>}
  \cup {<<<<W("cloadi"), W("s7"), CI(a, b)>>>> : a \in ImmEdge, b \in ImmEdge}
  \cup {<<<<W("csub_i"), W("s2"), W("s1"), CI(a, b)>>>> : a \in ImmEdge, b \in ImmEdge}
  \cup {<<<<W("cscale_i"), W("s2"), W("s1"), RL(a)>>>> : a \in ImmGrid}
  \cup {<<<<W("sld.xy"), W("s1"), IL(0), IL(Cols), IL(0)>>>>}

\* assembler run on an I-type line, emulator run on its output with a step
\* ceiling that lets the word execute
InitImm ==
  /\ StartMachine
  /\ max_steps = MaxSteps
  /\ out = <<>>
  /\ phase = "asm"
  /\ src \in ImmSources
  /\ prog = <<>>

SpecImm == InitImm /\ [][Next]_vars

(***************************************************************************)
(* Source layout: ORG lines and lines with more than one instruction.      *)
(***************************************************************************)
org_line(n) == <<W("org"), IL(n)>>

\* an "ORG n" line before a label that a jrel names, the jrel before the ORG
\* line or after the label
OrgSources ==
  {<<jrel_line("L"), org_line(n), <<LD("L")>>, cloadi_line(2, 1, 0)>> : n \in 1..MaxInstrs}
  \cup {<<org_line(n), <<LD("L")>>, cloadi_line(1, 1, 0), jrel_line("L")>> : n \in 0..MaxInstrs}
  \cup {<<cloadi_line(1, 1, 0), org_line(n), <<LD("L")>> \o cloadi_line(2, 1, 0)>> : n \in 0..MaxInstrs}

\* two or three instructions on one line, alone, after a label, and before a
\* label that a jrel names
MultiSources ==
  {<<cloadi_line(1, a, 0) \o cloadi_line(2, b, 0)>> : a \in {0, 1}, b \in {0, 1}}
  \cup {<<cloadi_line(1, a, 0) \o cloadi_line(2, 1, 0) \o <<W("cadd"), W("s3"), W("s1"), W("s2")>>>> :
          a \in {0, 1}}
  \cup {<<<<LD("L")>> \o cloadi_line(1, a, 0) \o jrel_line("L")>> : a \in {0, 1}}
  \cup {<<jrel_line("L"), cloadi_line(1, a, 0) \o cloadi_line(2, 1, 0), <<LD("L")>>,
           cloadi_line(3, 1, 0)>> : a \in {0, 1}}
  \cup {<<cloadi_line(2, 1, 0) \o sst_line(2, 0, 1, 1), sld_line(3, 0, 1, 1)>>}

LayoutSources == OrgSources \cup MultiSources \cup SmallSources

\* assembler run on a source text, emulator run on its output
InitText ==
  /\ asm_err = NoErr
  /\ pc = MachineInit.pc
  /\ s = MachineInit.s
  /\ v = MachineInit.v
  /\ bank = MachineInit.bank
  /\ step = 0
  /\ status = "none"
  /\ max_steps \in {1, MaxSteps}
  /\ pred_uses_real_only = TRUE
  /\ out = <<>>
  /\ phase = "asm"
  /\ src \in LayoutSources
  /\ prog = <<>>

SpecText == InitText /\ [][Next]_vars

\* the processes are sequential programs that run to their end
SpecHexFair == SpecHex /\ WF_vars(NextEmu)

SpecRunFair == SpecRun /\ WF_vars(NextEmu)

(***************************************************************************)
(* Properties.                                                             *)
(***************************************************************************)
\* the fields of the word the run loop is about to execute
CurWord == prog[pc + 1]
CurOpc == get_bits(CurWord, 127, 120)
CurSubop == get_bits(CurWord, 119, 112)
CurRd == get_bits(CurWord, 95, 93)

\* the run loop is about to execute a word
AtFetch == phase = "run" /\ LoopCond(pc, Len(prog), step, max_steps)

\* C1: in every reachable emulator state, also after a step that ended in a
\* runtime error, s0 is (0,0) and every lane of v0 is (0,0).
C1_ReservedZero == s[0] = Zero /\ \A k \in 1..VLEN : v[0][k] = Zero

\* a cloadi to s0 was attempted after other registers were written
C1_Witness ==
  /\ status = "error"
  /\ CurOpc = 2 /\ CurSubop = 0 /\ CurRd = 0
  /\ s[1] # Zero
  /\ s[0] = Zero

\* the word writes a register and its destination field is 0
DestZeroWrite(w) ==
  /\ get_bits(w, 95, 93) = 0
  /\ \/ get_bits(w, 127, 120) \in {1, 2}
     \/ get_bits(w, 127, 120) = 4 /\ get_bits(w, 119, 112) \in {0, 2}

\* C2: executing a register-writing word (R-type, I-type, vld, sld.xy) whose
\* destination field is 0 raises a runtime error and leaves pc, the scalar
\* registers, the vector registers and the banks as they were.
C2_ZeroDestRaises ==
  [][(AtFetch /\ DestZeroWrite(CurWord))
       => (status' = "error" /\ pc' = pc /\ s' = s /\ v' = v /\ bank' = bank)]_vars

\* a vld to v0 was rejected in a state whose registers hold values
C2_Witness ==
  /\ status = "error"
  /\ CurOpc = 4 /\ CurSubop = 0 /\ CurRd = 0
  /\ get_bits(CurWord, 92, 89) < BANKS /\ get_bits(CurWord, 88, 73) < Rows
  /\ v[1] # ZeroVec
  /\ pc = 3

\* the word is a jrel
IsJrel(w) == get_bits(w, 127, 120) = 3 /\ get_bits(w, 119, 112) = 0

\* bits 92:60 of the word are the 33-bit two's-complement code of o
EncodesOffs(w, o) == {i - 60 : i \in {x \in w : 60 <= x /\ x <= 92}} = TwosBits(o, 33)

\* C5: a jrel executed at program counter p sets pc to p + offs33 (offs33 the
\* signed 33-bit field, measured from the jump itself) when the predicate is
\* true, and to p + 1 when it is false.
C5_JrelTarget ==
  [][(AtFetch /\ IsJrel(CurWord))
       => \E o \in (-MaxOffs)..MaxOffs :
            /\ EncodesOffs(CurWord, o)
            /\ pc' = IF pred_true(Mach, pred_uses_real_only) THEN pc + o ELSE pc + 1]_vars

\* the jrel at index 2 with offset -2 was taken: pc is back at 0
C5_Witness ==
  /\ Len(prog) = 3 /\ IsJrel(prog[3]) /\ EncodesOffs(prog[3], -2)
  /\ step = 3 /\ pc = 0

\* what the predicate is, by the configuration
PredicateOfS1 ==
  IF pred_uses_real_only THEN s[1][1] # 0 ELSE (s[1][1] # 0 \/ s[1][2] # 0)

\* C6: the jrel predicate is read from s1 whatever the register field of the
\* word holds; by default it is true iff the real part of s1 is non-zero, and
\* with the predicate-imag option iff the real or the imaginary part is.
C6_PredicateIsS1 ==
  [][(AtFetch /\ IsJrel(CurWord) /\ ~EncodesOffs(CurWord, 1))
       => ((pc' # pc + 1) <=> PredicateOfS1)]_vars

\* default configuration, register field 2 with s2 non-zero, s1 imaginary
\* only: the jump at index 3 was not taken
C6_Witness ==
  /\ pred_uses_real_only
  /\ Len(prog) = 4 /\ IsJrel(prog[4]) /\ EncodesOffs(prog[4], -2)
  /\ get_bits(prog[4], 95, 93) = 2
  /\ s[1][1] = 0 /\ s[1][2] # 0 /\ s[2][1] # 0
  /\ pc = 4

\* C10: a run executes at most max_steps steps and then stops, by pc outside
\* the program, by the step count equal to max_steps, or by a runtime error;
\* no instruction is executed once the step count has reached max_steps.
C10_RunTerminates ==
  /\ [](step <= max_steps)
  /\ <>(phase = "halt")
  /\ [](phase = "halt" =>
          /\ status \in {"pc_out", "max_steps", "error"}
          /\ status = "pc_out" => ~(0 <= pc /\ pc < Len(prog))
          /\ status = "max_steps" => (step = max_steps /\ 0 <= pc /\ pc < Len(prog))
          /\ status = "error" => (step < max_steps /\ 0 <= pc /\ pc < Len(prog)))
  /\ [][step >= max_steps
          => (step' = step /\ pc' = pc /\ s' = s /\ v' = v /\ bank' = bank)]_vars

\* a looping program was stopped by the ceiling after MaxSteps steps
C10_Witness ==
  /\ phase = "halt" /\ status = "max_steps"
  /\ step = max_steps /\ max_steps = MaxSteps

(***************************************************************************)
(* The source text read directly, for the properties of the assembler.     *)
(***************************************************************************)
\* the number of tokens ending with ':' at the start of a line
NLead(line) ==
  CHOOSE n \in 0..Len(line) :
    /\ \A i \in 1..n : line[i].k = "ld"
    /\ n = Len(line) \/ line[n + 1].k # "ld"

\* the line holds an instruction, whose tokens are InstrTokens(line)
IsInstrLine(line) == NLead(line) < Len(line)
InstrTokens(line) == SubSeq(line, NLead(line) + 1, Len(line))

\* the number of instructions on the lines before line i
InstrsBefore(lines, i) == Cardinality({i2 \in 1..(i - 1) : IsInstrLine(lines[i2])})

\* line i defines the label
DefinesLabel(lines, i, name) == \E q \in 1..NLead(lines[i]) : lines[i][q].name = name

\* the number of instructions that precede the definition of the label
LabelIndex(lines, name) ==
  InstrsBefore(lines, CHOOSE i \in 1..Len(lines) : DefinesLabel(lines, i, name))

\* the lines whose instruction is a jrel that names a label
JrelLines(lines) ==
  {i \in 1..Len(lines) :
     /\ IsInstrLine(lines[i])
     /\ Len(InstrTokens(lines[i])) = 2
     /\ InstrTokens(lines[i])[1] = W("jrel")
     /\ InstrTokens(lines[i])[2].k = "w"}

\* assembly of src succeeded and its words are in out
Assembled == phase \in {"load", "run", "halt"} /\ status \notin {"asm_error", "asm_crash"}

WritingMnemonics ==
  DOMAIN R_SCALAR_UNARY \cup DOMAIN R_SCALAR_BINARY \cup DOMAIN R_VECTOR_LANE
  \cup DOMAIN R_REDUCTIONS \cup DOMAIN R_VEC_SCALAR \cup DOMAIN I_SUBOPS \cup {"vld", "sld.xy"}

\* some instruction of the text writes a register and names s0 or v0 as its
\* destination
HasZeroDest(lines) ==
  \E i \in 1..Len(lines) :
    /\ IsInstrLine(lines[i])
    /\ Len(InstrTokens(lines[i])) >= 2
    /\ MnOf(InstrTokens(lines[i])[1]) \in WritingMnemonics
    /\ InstrTokens(lines[i])[2] \in {W("s0"), W("v0")}

\* C3: the assembler rejects every program with an instruction whose
\* destination register is s0 or v0 (R-type, cloadi and c*_i, vld, sld.xy),
\* and produces no word for it (the assembler ends with an error message, or
\* has ended before on a line with a malformed hex component).
C3_ZeroDestRejected ==
  (phase # "asm" /\ HasZeroDest(src))
    => (status \in {"asm_error", "asm_crash"} /\ phase = "halt" /\ out = <<>> /\ prog = <<>>)

\* a vld to v0 on the second line was rejected, the first line was valid
C3_Witness ==
  /\ status = "asm_error"
  /\ Len(src) = 2 /\ src[2][1] = W("vld") /\ src[2][2] = W("v0")
  /\ asm_err = [line |-> 2, msg |-> V0_MSG]
  /\ out = <<>>

\* the last line of the text stores a reserved register
EndsWithZeroStore(lines) ==
  /\ lines # <<>>
  /\ lines[Len(lines)] # <<>>
  /\ lines[Len(lines)][1] \in {W("sst.xy"), W("vst")}
  /\ lines[Len(lines)][2] \in {W("s0"), W("v0")}

\* C4: a store whose source is a reserved register is accepted by the
\* assembler (sst.xy s0 and vst v0 alike), and executing it stores zero
\* without a runtime error.
C4_StoreFromZero ==
  (src \in StoreSources /\ EndsWithZeroStore(src))
    => /\ status # "asm_error"
       /\ (phase = "halt" /\ max_steps >= Len(src))
            => (status = "pc_out" /\ bank[0][1][1] = Zero)

\* what the code does: sst.xy s0 is accepted and stores zero over a value
C4_SstFromZero ==
  (src \in StoreSources /\ EndsWithZeroStore(src) /\ src[Len(src)][1] = W("sst.xy"))
    => /\ status # "asm_error"
       /\ (phase = "halt" /\ max_steps >= Len(src))
            => (status = "pc_out" /\ bank[0][1][1] = Zero)

\* the jrel of line i is instruction j and its label is defined before
\* instruction j + dist
JumpDistance(lines, i, dist) ==
  LabelIndex(lines, InstrTokens(lines[i])[2].name) = InstrsBefore(lines, i) + dist

\* the instruction at index p is a jrel to a label defined dist after it
SrcJumpAt(p, dist) ==
  \E i \in JrelLines(src) : InstrsBefore(src, i) = p /\ JumpDistance(src, i, dist)

\* C7: a jrel to a label defined right after it is assembled with offset 1
\* and, taken, advances pc by 1; a jrel to a label defined at the jump is
\* assembled with offset 0 and, while the predicate holds, every step leaves
\* pc and the machine unchanged, so that only the step ceiling ends the run.
C7_LabelLocality ==
  /\ [](Assembled =>
          \A i \in JrelLines(src) :
            /\ JumpDistance(src, i, 1)
                 => get_bits_signed(out[InstrsBefore(src, i) + 1], 92, 60) = 1
            /\ JumpDistance(src, i, 0)
                 => get_bits_signed(out[InstrsBefore(src, i) + 1], 92, 60) = 0)
  /\ [][(AtFetch /\ SrcJumpAt(pc, 1) /\ PredicateOfS1) => pc' = pc + 1]_vars
  /\ [][(AtFetch /\ SrcJumpAt(pc, 0) /\ PredicateOfS1)
          => (pc' = pc /\ s' = s /\ v' = v /\ bank' = bank /\ phase' = "run")]_vars
  /\ []((phase = "halt" /\ Assembled /\ SrcJumpAt(pc, 0) /\ PredicateOfS1)
          => (status = "max_steps" /\ step = max_steps))

\* a jump to itself was executed again and again until the ceiling
C7_Witness ==
  /\ phase = "halt" /\ status = "max_steps"
  /\ SrcJumpAt(pc, 0) /\ PredicateOfS1
  /\ step = MaxSteps

\* C8: every jrel that names a label is encoded with offs33 = (number of
\* instructions before the definition of the label) - (index of the jrel),
\* for backward and forward references and for a label after the last
\* instruction; label-only lines do not count as instructions.
C8_LabelOffsets ==
  Assembled =>
    \A i \in JrelLines(src) :
      get_bits_signed(out[InstrsBefore(src, i) + 1], 92, 60)
        = LabelIndex(src, InstrTokens(src[i])[2].name) - InstrsBefore(src, i)

\* a jump at index 0 to a label on a line of its own after the last of
\* three instructions: offset 3
C8_Witness ==
  /\ Assembled /\ Len(out) = 3
  /\ \E i \in JrelLines(src) : InstrsBefore(src, i) = 0 /\ JumpDistance(src, i, 3)
  /\ src[Len(src)] = <<LD("L")>>
  /\ get_bits_signed(out[1], 92, 60) = 3

\* the predicated loop of n rounds, real-only predicate, ceiling large enough
LoopCase(n) == src = LoopSource(n) /\ pred_uses_real_only /\ max_steps >= 2 + 3 * n

\* C9: the predicated loop (cloadi s1, c(n,0); cloadi s2, c(0,0); L: cadd_i
\* s2, s2, c(1,0); csub_i s1, s1, c(1,0); jrel L) runs its body exactly n
\* times and then ends by pc leaving the program, with s2 = (n * 1.0, 0) and
\* s1 = (0,0); for n = 1 after 5 steps.
C9_PredicatedLoop ==
  /\ [](\A n \in 1..MaxLoopN :
          LoopCase(n) =>
            /\ status \in {"none", "pc_out"}
            /\ (phase = "run" /\ pc = 2)
                 => \E r \in 0..(n - 1) :
                      /\ step = 2 + 3 * r
                      /\ s[2] = <<r * Pow2(FRAC_BITS), 0>>
                      /\ s[1] = <<(n - r) * Pow2(FRAC_BITS), 0>>
            /\ phase = "halt"
                 => /\ status = "pc_out" /\ pc = 5
                    /\ step = 2 + 3 * n
                    /\ s[2] = <<n * Pow2(FRAC_BITS), 0>>
                    /\ s[1] = Zero)
  /\ \A n \in 1..MaxLoopN : [](LoopCase(n) => <>(phase = "halt"))

\* the loop of two rounds has ended
C9_Witness ==
  /\ LoopCase(2) /\ phase = "halt" /\ status = "pc_out"
  /\ step = 8 /\ s[2] = <<2 * Pow2(FRAC_BITS), 0>>

(***************************************************************************)
(* pc leaving the program.                                                 *)
(***************************************************************************)
PcInRange == 0 <= pc /\ pc < Len(prog)

\* C11: a pc moved below 0 or to program_length and beyond (by a taken jrel
\* or by the last instruction falling through) is no runtime error: the run
\* ends normally from that state with the machine as it is, and every step
\* that executes a word or raises an error starts at a pc inside the program.
C11_PcEscape ==
  /\ [][(phase = "run" /\ ~PcInRange)
          => (phase' = "halt" /\ status' = "pc_out"
              /\ pc' = pc /\ s' = s /\ v' = v /\ bank' = bank /\ step' = step)]_vars
  /\ [][(step' # step \/ status' = "error") => PcInRange]_vars
  /\ [](status = "error" => PcInRange)

\* a taken jrel has moved pc below 0 and the run has ended normally
C11_Witness ==
  /\ phase = "halt" /\ status = "pc_out" /\ pc < 0
  /\ step = Len(prog) /\ IsJrel(prog[Len(prog)])

(***************************************************************************)
(* Assembly is all-or-nothing.                                             *)
(***************************************************************************)
\* assembly of src has ended without a result
AsmFailed == status \in {"asm_error", "asm_crash"}

\* line i defines a label that an earlier line, or the same line before,
\* has defined
LabelClash(lines, i) ==
  \E q \in 1..NLead(lines[i]) :
    \/ \E q2 \in 1..(q - 1) : lines[i][q2].name = lines[i][q].name
    \/ \E i2 \in 1..(i - 1) : DefinesLabel(lines, i2, lines[i][q].name)

\* the labels of a text without clashes
LabelTable(lines) ==
  [name \in UNION {{lines[i][q].name : q \in 1..NLead(lines[i])} : i \in 1..Len(lines)}
     |-> LabelIndex(lines, name)]

\* the lines the first pass stops at, and the lines the second pass stops at
ClashLines(lines) == {i \in 1..Len(lines) : LabelClash(lines, i)}
RejectedLines(lines) ==
  {i \in 1..Len(lines) :
     /\ IsInstrLine(lines[i])
     /\ ~assemble_line(InstrTokens(lines[i]), i, LabelTable(lines), InstrsBefore(lines, i)).ok}

Least(S) == CHOOSE i \in S : \A j \in S : i <= j

\* the error is the first one the passes come to, and nothing was written
FirstErrorOnly ==
  /\ asm_err.line = (IF ClashLines(src) # {} THEN Least(ClashLines(src))
                     ELSE Least(RejectedLines(src)))
  /\ out = <<>> /\ prog = <<>> /\ phase = "halt"

\* C12: assembly is all-or-nothing: when a line of the source is faulty,
\* assembly stops at the first error it comes to, the message is "Line <n>:
\* <message>" with n the number of that source line, and no word is written,
\* not even the words of the lines before.
C12_AllOrNothing ==
  /\ AsmFailed => (status = "asm_error" /\ asm_err.line \in 1..Len(src) /\ FirstErrorOnly)
  /\ (phase # "asm" /\ (ClashLines(src) # {} \/ RejectedLines(src) # {})) => AsmFailed

\* what the code does: an AsmError names its line and is the first error; a
\* malformed hex component ends the assembler with an exception that names
\* no line; in both cases nothing is written
C12_NothingWritten ==
  /\ status = "asm_error" => (asm_err.line \in 1..Len(src) /\ FirstErrorOnly)
  /\ status = "asm_crash"
       => (asm_err.line = 0 /\ out = <<>> /\ prog = <<>> /\ phase = "halt")
  /\ (phase # "asm" /\ (ClashLines(src) # {} \/ RejectedLines(src) # {})) => AsmFailed

\* the second of two faulty lines is never reported: line 2 of 3 was
C12_TwoFaults ==
  /\ status = "asm_error" /\ Len(src) = 3 /\ RejectedLines(src) = {2, 3}
  /\ asm_err.line = 2 /\ out = <<>>

(***************************************************************************)
(* Labels defined twice or nowhere.                                        *)
(***************************************************************************)
\* some jrel of the text names a label that no line defines
UndefinedRef(lines) ==
  \E i \in JrelLines(lines) :
    LET name == InstrTokens(lines[i])[2].name
    IN IsIdent(name) /\ ~\E i2 \in 1..Len(lines) : DefinesLabel(lines, i2, name)

\* C13: a program that defines a label twice fails assembly with an error,
\* referenced or not, at one instruction index or at two; a jrel to a label
\* that is defined nowhere fails assembly too.
C13_LabelFaults ==
  /\ (phase # "asm" /\ ClashLines(src) # {})
       => /\ status = "asm_error" /\ phase = "halt" /\ out = <<>> /\ prog = <<>>
          /\ asm_err = [line |-> Least(ClashLines(src)), msg |-> "duplicate label"]
  /\ (phase # "asm" /\ UndefinedRef(src))
       => /\ AsmFailed /\ phase = "halt" /\ out = <<>> /\ prog = <<>>
          /\ (src \in LabelFaultSources /\ ClashLines(src) = {})
               => asm_err.msg = "unknown label"

\* a label that no jrel names was defined on two lines with no instruction
\* between them, and assembly failed at the second
C13_Witness ==
  /\ status = "asm_error" /\ asm_err = [line |-> 2, msg |-> "duplicate label"]
  /\ src[1] = <<LD("L")>> /\ src[2] = <<LD("L")>>
  /\ JrelLines(src) = {} /\ RejectedLines(src) = {}

(***************************************************************************)
(* Encoding round trip: the assembler's fields as the emulator reads them.  *)
(***************************************************************************)
\* the line of the k-th instruction (k from 1) of a text
LineOfInstr(lines, k) ==
  CHOOSE i \in 1..Len(lines) : IsInstrLine(lines[i]) /\ InstrsBefore(lines, i) = k - 1

\* the component num/den of the source is the signed field hi:lo of the word
ImmIs(w, hi, lo, d) == get_bits_signed(w, hi, lo) * d[2] = d[1] * Pow2(IMM_FRAC_BITS)

\* the fields exec_r reads from w are the operands of the R-type line tk
AgreeR(tk, w) ==
  LET mn == tk[1].name
  IN /\ get_bits(w, 127, 120) = 1
     /\ get_bits(w, 119, 112) =
          (R_SCALAR_UNARY @@ R_SCALAR_BINARY @@ R_VECTOR_LANE @@ R_REDUCTIONS @@ R_VEC_SCALAR)[mn]
     /\ get_bits(w, 97, 96) =
          (IF mn \in DOMAIN R_SCALAR_UNARY \cup DOMAIN R_SCALAR_BINARY THEN MAP_SS_to_S
           ELSE IF mn \in DOMAIN R_VECTOR_LANE THEN MAP_VV_to_V
           ELSE IF mn \in DOMAIN R_REDUCTIONS THEN MAP_VV_to_S ELSE MAP_VS_to_V)
     /\ get_bits(w, 95, 93) = parse_reg(tk[2])
     /\ get_bits(w, 92, 90) = parse_reg(tk[3])
     /\ get_bits(w, 89, 87) = (IF Len(tk) = 4 THEN parse_reg(tk[4]) ELSE 0)
     /\ w \subseteq (112..127) \cup (96..97) \cup (87..95)

\* the fields exec_i reads from w are the operands of the I-type line tk
AgreeI(tk, w) ==
  LET mn  == tk[1].name
      imm == tk[Len(tk)]
  IN /\ get_bits(w, 127, 120) = 2
     /\ get_bits(w, 119, 112) = I_SUBOPS[mn]
     /\ get_bits(w, 95, 93) = parse_reg(tk[2])
     /\ get_bits(w, 92, 90) = (IF mn = "cloadi" THEN 0 ELSE parse_reg(tk[3]))
     /\ ImmIs(w, IMM_BITS - 1, 0, IF imm.k = "i" THEN <<imm.n, 1>> ELSE imm.re)
     /\ ImmIs(w, 2 * IMM_BITS - 1, IMM_BITS, imm.im)
     /\ w \subseteq (112..127) \cup (90..95) \cup (0..(2 * IMM_BITS - 1))

\* the fields exec_j reads from w: the distance offs as a signed field
AgreeJ(w, offs) ==
  /\ get_bits(w, 127, 120) = 3
  /\ get_bits(w, 119, 112) = 0
  /\ get_bits(w, 95, 93) = 1
  /\ get_bits_signed(w, 92, 60) = offs
  /\ w \subseteq (112..127) \cup (60..95)

\* the fields exec_s reads from w are the operands of the S-type line tk
AgreeS(tk, w) ==
  LET mn  == tk[1].name
      vec == mn \in {"vld", "vst"}
  IN /\ get_bits(w, 127, 120) = 4
     /\ get_bits(w, 119, 112) = S_SUBOPS[mn]
     /\ get_bits(w, 111, 111) = (IF vec THEN tk[4].n ELSE 0)
     /\ get_bits(w, 95, 93) = parse_reg(tk[2])
     /\ get_bits(w, 92, 89) = tk[3].n
     /\ get_bits(w, 88, 73) = (IF vec THEN tk[5].n ELSE tk[4].n)
     /\ get_bits(w, 72, 57) = (IF vec THEN 0 ELSE tk[5].n)
     /\ get_bits(w, 56, 41) = (IF vec THEN tk[6].n ELSE 0)
     /\ w \subseteq (111..127) \cup (41..95)

\* word k of the output holds the operands of instruction k of the text
RoundTrip(lines, words, k) ==
  LET tk == InstrTokens(lines[LineOfInstr(lines, k)])
      mn == tk[1].name
      w  == words[k]
  IN IF mn \in DOMAIN I_SUBOPS THEN AgreeI(tk, w)
     ELSE IF mn \in DOMAIN J_SUBOPS
     THEN AgreeJ(w, IF tk[2].k = "i" THEN tk[2].n ELSE LabelIndex(lines, tk[2].name) - (k - 1))
     ELSE IF mn \in DOMAIN S_SUBOPS THEN AgreeS(tk, w)
     ELSE AgreeR(tk, w)

Packable(d) ==
  /\ (d[1] * Pow2(IMM_FRAC_BITS)) % d[2] = 0
  /\ -Pow2(IMM_BITS - 1) * d[2] <= d[1] * Pow2(IMM_FRAC_BITS)
  /\ d[1] * Pow2(IMM_FRAC_BITS) <= (Pow2(IMM_BITS - 1) - 1) * d[2]

\* the component in the unit of the registers, when that is an integer
InRegUnits(d) == (d[1] * Pow2(FRAC_BITS)) \div d[2]

\* the text is the line "cloadi sD, c(re,im)" with packable components
IsCloadi(lines, D) ==
  /\ Len(lines) = 1 /\ Len(lines[1]) = 3
  /\ lines[1][1] = W("cloadi") /\ lines[1][2] = W(SRegNames[D + 1])
  /\ lines[1][3].k = "c" /\ Packable(lines[1][3].re) /\ Packable(lines[1][3].im)

\* C15: for every pair (re, im) of multiples of the immediate's unit inside
\* its signed range, "cloadi sD, c(re, im)" with D in 1..7 assembles, and
\* executing the word leaves sD = (re, im) in register units exactly, for
\* negative components too; the conversion to the register format never
\* saturates.
C15_ImmediateExact ==
  \A D \in 1..7 :
    IsCloadi(src, D) =>
      /\ phase # "asm" => ~AsmFailed
      /\ (phase \in {"run", "halt"} /\ prog # <<>>) => status # "error"
      /\ step >= 1
           => /\ s[D] = <<InRegUnits(src[1][3].re), InRegUnits(src[1][3].im)>>
              /\ RAW_MIN <= s[D][1] /\ s[D][1] <= RAW_MAX
              /\ RAW_MIN <= s[D][2] /\ s[D][2] <= RAW_MAX
              /\ pc = 1

\* the least and the greatest component have been loaded
C15_Witness ==
  /\ IsCloadi(src, 1) /\ step = 1
  /\ src[1][3].re[1] = -Pow2(IMM_BITS) /\ src[1][3].im[1] = Pow2(IMM_BITS) - 2
  /\ s[1] = <<-Pow2(IMM_BITS - 1) * Pow2(FRAC_BITS - IMM_FRAC_BITS),
               (Pow2(IMM_BITS - 1) - 1) * Pow2(FRAC_BITS - IMM_FRAC_BITS)>>

\* the text is one I-type line of the immediate pool; its components
IsImmLine(lines) ==
  /\ Len(lines) = 1
  /\ lines[1][1].name \in DOMAIN I_SUBOPS
  /\ lines[1][Len(lines[1])].k \in {"c", "r"}
ImmRe(lines) == lines[1][Len(lines[1])].re
ImmIm(lines) == lines[1][Len(lines[1])].im

\* the component times 2^IMM_FRAC_BITS is an integer
IsMultiple(d) == (d[1] * Pow2(IMM_FRAC_BITS)) % d[2] = 0

\* the message for the first test a pair of components fails, real part first
ImmFault(re, im) ==
  LET d == IF Packable(re) THEN im ELSE re
  IN IF IsMultiple(d) THEN "out of range" ELSE "not exactly representable"

\* C16: the assembler rejects an I-type immediate, and does not round it,
\* whenever a component is no multiple of the immediate's unit or lies
\* outside the signed range of the field; it accepts every component that
\* passes both tests, and the two components are tested independently.
C16_ImmediateChecked ==
  (IsImmLine(src) /\ phase # "asm")
    => IF Packable(ImmRe(src)) /\ Packable(ImmIm(src))
       THEN /\ ~AsmFailed /\ Len(out) = 1
            /\ ImmIs(out[1], IMM_BITS - 1, 0, ImmRe(src))
            /\ ImmIs(out[1], 2 * IMM_BITS - 1, IMM_BITS, ImmIm(src))
       ELSE /\ status = "asm_error" /\ phase = "halt" /\ out = <<>> /\ prog = <<>>
            /\ asm_err = [line |-> 1, msg |-> ImmFault(ImmRe(src), ImmIm(src))]

\* what the code does: a component with more significant digits than the
\* decimal context keeps is rounded before it is tested, and a component
\* that rounds to a multiple of the unit is accepted as that multiple; the
\* components that the context keeps exactly are tested as stated
C16_RoundedByContext ==
  /\ (IsImmLine(src) /\ phase # "asm" /\ ImmRe(src) \in ImmGrid /\ ImmIm(src) \in ImmGrid)
       => IF Packable(ImmRe(src)) /\ Packable(ImmIm(src))
          THEN /\ ~AsmFailed /\ Len(out) = 1
               /\ ImmIs(out[1], IMM_BITS - 1, 0, ImmRe(src))
               /\ ImmIs(out[1], 2 * IMM_BITS - 1, IMM_BITS, ImmIm(src))
          ELSE /\ status = "asm_error" /\ phase = "halt" /\ out = <<>> /\ prog = <<>>
               /\ asm_err = [line |-> 1, msg |-> ImmFault(ImmRe(src), ImmIm(src))]
  /\ (IsImmLine(src) /\ phase # "asm" /\ ImmRe(src) = LongOne)
       => (~AsmFailed /\ Len(out) = 1 /\ ImmIs(out[1], IMM_BITS - 1, 0, One))
  /\ (IsImmLine(src) /\ phase # "asm" /\ ImmIm(src) = LongOne)
       => (~AsmFailed /\ Len(out) = 1 /\ ImmIs(out[1], 2 * IMM_BITS - 1, IMM_BITS, One))

(***************************************************************************)
(* Vector arithmetic.                                                      *)
(***************************************************************************)
\* the run is at its first word / has executed it: an R-type word with the
\* given sub-opcode and mapping
FirstWordIs(subop, mapbits) ==
  /\ get_bits(prog[1], 127, 120) = 1
  /\ get_bits(prog[1], 119, 112) = subop
  /\ get_bits(prog[1], 97, 96) = mapbits
Rd == get_bits(prog[1], 95, 93)
Rs1 == get_bits(prog[1], 92, 90)
Rs2 == get_bits(prog[1], 89, 87)

\* C17: vmac reads before it writes: after "vmac vD, vA, vB" every lane i of
\* vD is c_add(d_i, c_mul(a_i, b_i)) of the lane values of vD, vA and vB
\* before the instruction, also when vD is vA, vB or both.
C17_VmacReadsFirst ==
  [][(phase = "run" /\ pc = 0 /\ step' = 1 /\ FirstWordIs(3, MAP_VV_to_V))
       => /\ \A i \in 1..VLEN :
               v'[Rd][i] = c_add(v[Rd][i], c_mul(v[Rs1][i], v[Rs2][i]))
          /\ \A r \in 0..7 : r # Rd => v'[r] = v[r]
          /\ s' = s /\ bank' = bank /\ pc' = 1]_vars

\* a vmac whose destination is both of its sources has changed a lane
C17_Witness ==
  /\ FirstWordIs(3, MAP_VV_to_V) /\ Rd = 1 /\ Rs1 = 1 /\ Rs2 = 1
  /\ step = 1
  /\ v[1][1] = <<-3, 2>> /\ v[1][VLEN] = c_add(<<RAW_MAX, 0>>, c_mul(<<RAW_MAX, 0>>, <<RAW_MAX, 0>>))

\* the accumulator after the first n terms of the sequence t, taken in the
\* order given by the permutation ord of the lanes, saturating at every step
AccIn(t, ord, n) ==
  LET acc[i \in 0..VLEN] == IF i = 0 THEN Zero ELSE c_add(acc[i - 1], t[ord[i]])
  IN acc[n]
LaneOrder == [i \in 1..VLEN |-> i]
Backwards == [i \in 1..VLEN |-> VLEN + 1 - i]
\* some step of the accumulation in that order leaves the register's range
Saturates(t, ord) ==
  \E i \in 1..VLEN : \E c \in {1, 2} :
     LET exact == AccIn(t, ord, i - 1)[c] + t[ord[i]][c]
     IN exact < RAW_MIN \/ exact > RAW_MAX
\* the terms dotu and sum accumulate
DotuTerms == [i \in 1..VLEN |-> c_mul(v[Rs1][i], v[Rs2][i])]
SumTerms == [i \in 1..VLEN |-> v[Rs1][i]]

\* C18: "dotu sD, vA, vB" writes the value obtained from acc = (0,0) by
\* acc <- c_add(acc, c_mul(a_i, b_i)) for the lanes in increasing order, and
\* "sum sD, vA" the same with acc <- c_add(acc, a_i), saturating at every
\* step; nothing else changes and pc advances by one; the result differs from
\* the accumulation in the opposite lane order only when a step saturates
C18_LaneOrder ==
  [][(phase = "run" /\ pc = 0 /\ step' = 1 /\ FirstWordIs(1, MAP_VV_to_S))
       => /\ s'[Rd] = AccIn(DotuTerms, LaneOrder, VLEN)
          /\ \A r \in 0..7 : r # Rd => s'[r] = s[r]
          /\ v' = v /\ bank' = bank /\ pc' = 1
          /\ s'[Rd] # AccIn(DotuTerms, Backwards, VLEN)
               => Saturates(DotuTerms, LaneOrder) \/ Saturates(DotuTerms, Backwards)]_vars
  /\
  [][(phase = "run" /\ pc = 0 /\ step' = 1 /\ FirstWordIs(3, MAP_VV_to_S))
       => /\ s'[Rd] = AccIn(SumTerms, LaneOrder, VLEN)
          /\ \A r \in 0..7 : r # Rd => s'[r] = s[r]
          /\ v' = v /\ bank' = bank /\ pc' = 1
          /\ s'[Rd] # AccIn(SumTerms, Backwards, VLEN)
               => Saturates(SumTerms, LaneOrder) \/ Saturates(SumTerms, Backwards)]_vars
\* a sum has been executed whose result is not what the opposite lane order
\* gives: lanes (max, max, min) saturate on the way up and end below zero
C18_Witness ==
  /\ FirstWordIs(3, MAP_VV_to_S) /\ step = 1 /\ status = "none"
  /\ s[Rd] = AccIn(SumTerms, LaneOrder, VLEN)
  /\ s[Rd] # AccIn(SumTerms, Backwards, VLEN)
  /\ Saturates(SumTerms, LaneOrder)

\* the 0-based lanes of the source register whose c_abs2 is the largest
MaxLanes ==
  {i \in 0..(VLEN - 1) :
     \A j \in 0..(VLEN - 1) : c_abs2(v[Rs1][j + 1]) <= c_abs2(v[Rs1][i + 1])}

\* C19: "iamax sD, vA" writes sD = (k * 2^FRAC_BITS, 0), k the smallest lane
\* index whose c_abs2 is maximal over the lanes of vA (lanes that saturate to
\* the same value and the all-zero vector included); nothing else changes
C19_IamaxLowestIndex ==
  [][(phase = "run" /\ pc = 0 /\ step' = 1 /\ FirstWordIs(2, MAP_VV_to_S))
       => /\ \E k \in MaxLanes :
               /\ \A j \in MaxLanes : k <= j
               /\ s'[Rd] = <<k * Pow2(FRAC_BITS), 0>>
          /\ \A r \in 0..7 : r # Rd => s'[r] = s[r]
          /\ v' = v /\ bank' = bank /\ pc' = 1]_vars
\* iamax has been executed on a vector whose lanes 1 and 2 differ and both
\* saturate c_abs2, above lane 0: the answer is lane 1
C19_Witness ==
  /\ FirstWordIs(2, MAP_VV_to_S) /\ step = 1 /\ status = "none"
  /\ v[Rs1][1] = Zero /\ v[Rs1][2] = <<RAW_MAX, 0>> /\ v[Rs1][3] = <<RAW_MIN, RAW_MAX>>
  /\ c_abs2(v[Rs1][2]) = RAW_MAX /\ c_abs2(v[Rs1][3]) = RAW_MAX
  /\ MaxLanes = {1, 2}
  /\ s[Rd] = <<Pow2(FRAC_BITS), 0>>

(***************************************************************************)
(* Division.                                                               *)
(***************************************************************************)
\* the denominator c_div computes for the divisor b
Denom(b) == add_q(mul_q(b[1], b[1]), mul_q(b[2], b[2]))
\* the first word is cdiv_i, and the immediate it divides by
IsCdivI == get_bits(prog[1], 127, 120) = 2 /\ get_bits(prog[1], 119, 112) = 4
Cimm == q22_23_to_q32_32_pair({i \in prog[1] : i <= 2 * IMM_BITS - 1})
\* the step from the first word is an executed instruction, not an error:
\* pc advances by one and the run goes on
RunContinues ==
  /\ step' = 1 /\ pc' = 1
  /\ phase' = "run" /\ status' = "none"
  /\ bank' = bank

\* C20: division by zero is not a runtime error: cdiv, crecip, cdiv_i, vdiv
\* and vsdiv to a register other than register 0, with a divisor whose
\* denominator mul(br,br) + mul(bi,bi) is 0, write (0,0) to the destination
\* (to the lane concerned for vdiv), pc advances by 1 and the run continues
C20_DivByZero ==
  [][(phase = "run" /\ pc = 0 /\ Rd # 0)
       => /\ (FirstWordIs(11, MAP_SS_to_S) /\ Denom(s[Rs2]) = 0)
               => RunContinues /\ s'[Rd] = Zero /\ v' = v
          /\ (FirstWordIs(7, MAP_SS_to_S) /\ Denom(s[Rs1]) = 0)
               => RunContinues /\ s'[Rd] = Zero /\ v' = v
          /\ (IsCdivI /\ Denom(Cimm) = 0)
               => RunContinues /\ s'[Rd] = Zero /\ v' = v
          /\ (FirstWordIs(4, MAP_VV_to_V) /\ \E i \in 1..VLEN : Denom(v[Rs2][i]) = 0)
               => /\ RunContinues /\ s' = s
                  /\ \A i \in 1..VLEN : Denom(v[Rs2][i]) = 0 => v'[Rd][i] = Zero
          /\ (FirstWordIs(27, MAP_VS_to_V) /\ Denom(s[Rs2]) = 0)
               => /\ RunContinues /\ s' = s
                  /\ \A i \in 1..VLEN : v'[Rd][i] = Zero]_vars
\* vdiv has been executed with a divisor whose lane 0 is small and not zero
\* (its denominator is 0) and whose lane 1 is one: lane 0 of the result is
\* (0,0), lane 1 is the dividend's lane, and the run has not stopped
C20_Witness ==
  /\ FirstWordIs(4, MAP_VV_to_V) /\ Rd = 3 /\ Rs1 = 1 /\ Rs2 = 2
  /\ step = 1 /\ pc = 1 /\ status = "none"
  /\ v[2][1] = <<-3, 2>> /\ Denom(v[2][1]) = 0
  /\ v[2][2] = <<Pow2(FRAC_BITS), 0>>
  /\ v[1][1] # Zero /\ v[1][2] # Zero
  /\ v[3][1] = Zero /\ v[3][2] = v[1][2]

(***************************************************************************)
(* Matrix banks.                                                           *)
(***************************************************************************)
\* the fields of the S-type word the run loop is about to execute
CurRc == get_bits(CurWord, 111, 111)
CurMbid == get_bits(CurWord, 92, 89)
CurI16 == get_bits(CurWord, 88, 73)
CurJ16 == get_bits(CurWord, 72, 57)
CurLen16 == get_bits(CurWord, 56, 41)
\* the cell that lane k (from 0) of a run starting at (i16, j16) stands for
RunRow(k) == IF CurRc = 0 THEN CurI16 ELSE CurI16 + k
RunCol(k) == IF CurRc = 0 THEN CurJ16 + k ELSE CurJ16
RunInBank == \A k \in 0..(VLEN - 1) : RunRow(k) < Rows /\ RunCol(k) < Cols
\* the run loop is about to execute a vld (subop 0) or vst (subop 1) word
\* with an existing bank, a writable register and a clear length field
VecWordAt(subop) ==
  /\ AtFetch /\ CurOpc = 4 /\ CurSubop = subop
  /\ CurRd # 0 /\ CurMbid < BANKS /\ CurLen16 = 0

\* C21: vld reads the VLEN-long run of bank mbid that starts at the cell
\* (i16, j16): lane k receives the cell at row i16, column j16 + k with
\* orientation 0 and the cell at row i16 + k, column j16 with orientation 1;
\* vst writes the source lanes to the same cells
C21_RunFromCell ==
  /\ [][(VecWordAt(0) /\ RunInBank)
          => /\ step' = step + 1
             /\ \A k \in 0..(VLEN - 1) :
                  v'[CurRd][k + 1] = bank[CurMbid][RunRow(k)][RunCol(k)]]_vars
  /\ [][(VecWordAt(1) /\ RunInBank)
          => /\ step' = step + 1
             /\ \A k \in 0..(VLEN - 1) :
                  bank'[CurMbid][RunRow(k)][RunCol(k)] = v[CurRd][k + 1]]_vars

\* the values the cells of a bank hold, and the cells a step changes
CellsOf(b) == {bank[b][r][c] : r \in 0..(Rows - 1), c \in 0..(Cols - 1)}
Modified(b) ==
  {rc \in (0..(Rows - 1)) \X (0..(Cols - 1)) : bank'[b][rc[1]][rc[2]] # bank[b][rc[1]][rc[2]]}
\* the run loop is about to execute a vld or vst word that names an existing
\* bank, a writable register and a row or column of the bank; bank 0 is the
\* filled bank, whose cells differ from every lane of the register
LenWordAt(subop) ==
  /\ AtFetch /\ CurOpc = 4 /\ CurSubop = subop
  /\ CurRd # 0 /\ CurMbid = 0 /\ CurI16 < Rows
  /\ bank[0] = PatternBank[0] /\ v[CurRd] = LaneVec

\* C22: the transfer length is VLEN whatever bits 56:41 of the word hold: a
\* vld fills exactly VLEN destination lanes from the bank, a vst modifies
\* exactly VLEN bank cells
C22_LengthFixed ==
  /\ [][LenWordAt(0)
          => /\ step' = step + 1
             /\ \A k \in 1..VLEN : v'[CurRd][k] \in CellsOf(CurMbid)]_vars
  /\ [][LenWordAt(1)
          => /\ step' = step + 1
             /\ Cardinality(Modified(CurMbid)) = VLEN]_vars

\* the program is a row-major vld of v1 from bank 0 at (i, j) followed by a
\* column-major vst of v1 into bank 1 at (i, j), the runs inside the banks
TransposeAt(i, j) ==
  /\ prog = <<SWord(0, 0, 1, 0, i, j, 0), SWord(1, 1, 1, 1, i, j, 0)>>
  /\ j + VLEN <= Cols /\ i + VLEN <= Rows

\* C23: a row-major vld at (i, j) from bank A followed by a column-major vst
\* of the loaded register at (i, j) into a clear bank B transposes the run:
\* the k-th element along row i of A from column j is the k-th element down
\* column j of B from row i, and every other cell of B is still zero
C23_Transpose ==
  (Len(prog) = 2 /\ phase = "halt")
    => LET i == get_bits(prog[1], 88, 73)
           j == get_bits(prog[1], 72, 57)
       IN TransposeAt(i, j)
            => /\ status = "pc_out" /\ step = 2
               /\ \A r \in 0..(Rows - 1), c \in 0..(Cols - 1) :
                    bank[1][r][c] = IF c = j /\ r \in i..(i + VLEN - 1)
                                    THEN bank[0][i][j + (r - i)] ELSE Zero

\* the cell of an sld.xy or sst.xy, or the run of a vld or vst, that the
\* word about to be executed addresses lies outside the bank
OutOfBank ==
  IF CurSubop \in {2, 3} THEN CurI16 >= Rows \/ CurJ16 >= Cols ELSE ~RunInBank
\* the step raised a runtime error and changed nothing
ErrorStep ==
  /\ status' = "error" /\ phase' = "halt"
  /\ pc' = pc /\ s' = s /\ v' = v /\ bank' = bank

\* C24: an S-type instruction whose cell or run lies outside the bank (a row
\* or column index at or beyond N * VLEN, or a run that crosses the bank
\* edge) raises a runtime error that leaves pc, the registers and every bank
\* cell unchanged
C24_OutOfBankRaises ==
  [][(AtFetch /\ CurOpc = 4 /\ CurSubop \in 0..3 /\ CurMbid < BANKS /\ CurLen16 = 0
        /\ OutOfBank)
       => ErrorStep]_vars

\* the program stores s1 to the cell (x, y) of bank 1, loads row x of bank 1
\* row-major into v1 and loads the cell (x, y) into s2; y is a lane of v1
CellAt(x, y) ==
  /\ prog = <<SWord(3, 0, 1, 1, x, y, 0), SWord(0, 0, 1, 1, x, 0, 0), SWord(2, 0, 2, 1, x, y, 0)>>
  /\ y < VLEN

\* C25: sld.xy and sst.xy address the cell (x, y) = (i16, j16) as vld and vst
\* do: after "sst.xy sS, mb, x, y" a row-major vld of row x of the bank has
\* the stored value in the lane of column y, and "sld.xy sD, mb, x, y"
\* returns the same value
C25_CellAddressing ==
  (Len(prog) = 3 /\ phase = "halt")
    => LET x == get_bits(prog[1], 88, 73)
           y == get_bits(prog[1], 72, 57)
       IN CellAt(x, y)
            => /\ status = "pc_out" /\ step = 3
               /\ s[1] # Zero
               /\ v[1][y + 1] = s[1]
               /\ s[2] = s[1]

\* some S-type instruction of the text has a bank operand outside 0..3
BadBankLine(lines) ==
  \E i \in 1..Len(lines) :
    /\ IsInstrLine(lines[i])
    /\ Len(InstrTokens(lines[i])) >= 3
    /\ MnOf(InstrTokens(lines[i])[1]) \in DOMAIN S_SUBOPS
    /\ InstrTokens(lines[i])[3].k = "i"
    /\ InstrTokens(lines[i])[3].n \notin 0..3

\* C26: bank ids above 3 are rejected everywhere: the assembler fails on an
\* S-type instruction whose bank operand is not in 0..3 and writes nothing;
\* the emulator has exactly 4 banks and raises a runtime error, with the
\* machine unchanged, on an S-type word whose field 92:89 holds 4..15
C26_BankIdRejected ==
  /\ [](DOMAIN bank = 0..3)
  /\ []((phase # "asm" /\ BadBankLine(src))
          => (status = "asm_error" /\ phase = "halt" /\ out = <<>> /\ prog = <<>>))
  /\ [][(AtFetch /\ CurOpc = 4 /\ CurMbid \in 4..15) => ErrorStep]_vars
\* a vst to bank 15 with every other field in range has ended the run with
\* an error, and the filled bank is as it was
C26_Witness ==
  /\ phase = "halt" /\ status = "error" /\ step = 0 /\ pc = 0
  /\ prog = <<SWord(1, 0, 1, 15, 0, 0, 0)>>
  /\ bank = PatternBank

(***************************************************************************)
(* Source layout.                                                          *)
(***************************************************************************)
IsOrg(line) == Len(line) = 2 /\ line[1] = W("org") /\ line[2].k = "i"
HasOrg(lines) == \E i \in 1..Len(lines) : IsOrg(lines[i])
\* the instruction index after the first n lines when an ORG line sets it:
\* "ORG k" makes it k, any other instruction adds one
OrgIndex(lines, n) ==
  LET idx[i \in 0..Len(lines)] ==
        IF i = 0 THEN 0
        ELSE IF IsOrg(lines[i]) THEN lines[i][2].n
        ELSE IF IsInstrLine(lines[i]) THEN idx[i - 1] + 1
        ELSE idx[i - 1]
  IN idx[n]
\* the instructions before line i that emit a word
WordsBefore(lines, i) ==
  Cardinality({q \in 1..(i - 1) : IsInstrLine(lines[q]) /\ ~IsOrg(lines[q])})

\* C27: an "ORG n" line emits no word and sets the instruction index: the
\* next instruction has index n, and a label defined right after it has the
\* value n in both passes, so that a jrel to a label is encoded with
\* (index of the label) - (index of the jrel) counted from the ORG line
C27_OrgSetsIndex ==
  (phase # "asm" /\ HasOrg(src))
    => /\ Assembled
       /\ Len(out) = WordsBefore(src, Len(src) + 1)
       /\ \A i \in JrelLines(src) :
            \A q \in 1..Len(src) :
              DefinesLabel(src, q, InstrTokens(src[i])[2].name)
                => get_bits_signed(out[WordsBefore(src, i) + 1], 92, 60)
                     = OrgIndex(src, q - 1) - OrgIndex(src, i - 1)

\* the token is a recognized mnemonic
IsMnemonic(tok) ==
  MnOf(tok) \in WritingMnemonics \cup DOMAIN J_SUBOPS \cup DOMAIN S_SUBOPS
\* the number of instruction chunks of a line
NChunks(line) == Cardinality({q \in 1..Len(line) : IsMnemonic(line[q])})
HasMultiLine(lines) == \E i \in 1..Len(lines) : NChunks(lines[i]) >= 2

RECURSIVE Chunks(_, _, _)
\* the chunks of a line from token i on, cur the chunk being collected: a
\* chunk ends where the next mnemonic begins (labels stay with the first)
Chunks(line, i, cur) ==
  IF i > Len(line) THEN (IF cur = <<>> THEN <<>> ELSE <<cur>>)
  ELSE IF IsMnemonic(line[i]) /\ (\E q \in 1..Len(cur) : IsMnemonic(cur[q]))
  THEN <<cur>> \o Chunks(line, i + 1, <<line[i]>>)
  ELSE Chunks(line, i + 1, Append(cur, line[i]))

RECURSIVE SplitText(_, _)
\* the text with every chunk on a line of its own
SplitText(lines, i) ==
  IF i > Len(lines) THEN <<>>
  ELSE (IF lines[i] = <<>> THEN << <<>> >> ELSE Chunks(lines[i], 1, <<>>))
       \o SplitText(lines, i + 1)

\* C28: a line with k instruction chunks (each beginning at a recognized
\* mnemonic) advances the instruction index by k in both passes and produces
\* k words in source order, and labels after it are numbered accordingly:
\* the text assembles to the words of the same chunks written one per line
C28_MultiInstructionLines ==
  (phase # "asm" /\ HasMultiLine(src))
    => \E r \in {assemble_text(SplitText(src, 1))} :
         r.ok => (Assembled /\ out = r.words)

(***************************************************************************)
(* S-type source syntax.                                                   *)
(***************************************************************************)
\* the line is "vld{.rm|.cm} vX, mbid, i16, j16" or the same with vst, with a
\* writable register and operands in range
IsVec4(line) ==
  /\ Len(line) = 5
  /\ MnOf(line[1]) \in {"vld", "vld.rm", "vld.cm", "vst", "vst.rm", "vst.cm"}
  /\ is_vector_reg(line[2]) /\ parse_reg(line[2]) # 0
  /\ line[3].k = "i" /\ line[3].n \in 0..3
  /\ line[4].k = "i" /\ line[4].n \in 0..(Pow2(16) - 1)
  /\ line[5].k = "i" /\ line[5].n \in 0..(Pow2(16) - 1)

\* C29: the assembler accepts vld and vst with an optional ".rm" / ".cm"
\* suffix and the operands vX, mbid, i16, j16: ".cm" sets bit 111 of the
\* word, ".rm" or no suffix leaves it 0, and i16 and j16 are encoded as given
C29_VecSyntax ==
  (phase # "asm" /\ Len(src) = 1 /\ IsVec4(src[1]))
    => /\ Assembled /\ Len(out) = 1
       /\ get_bits(out[1], 127, 120) = 4
       /\ get_bits(out[1], 119, 112)
            = (IF MnOf(src[1][1]) \in {"vld", "vld.rm", "vld.cm"} THEN 0 ELSE 1)
       /\ get_bits(out[1], 111, 111)
            = (IF MnOf(src[1][1]) \in {"vld.cm", "vst.cm"} THEN 1 ELSE 0)
       /\ get_bits(out[1], 95, 93) = parse_reg(src[1][2])
       /\ get_bits(out[1], 92, 89) = src[1][3].n
       /\ get_bits(out[1], 88, 73) = src[1][4].n
       /\ get_bits(out[1], 72, 57) = src[1][5].n

(***************************************************************************)
(* Saturation.                                                             *)
(***************************************************************************)
\* both components of the complex value are register values
InRange(c) == c[1] \in RAW_MIN..RAW_MAX /\ c[2] \in RAW_MIN..RAW_MAX

\* C30: in every reachable emulator state the real and the imaginary
\* component of every scalar register, every vector lane and every bank cell
\* lies within [RAW_MIN, RAW_MAX]
C30_SaturationClosure ==
  /\ \A r \in 0..7 : InRange(s[r])
  /\ \A r \in 0..7 : \A k \in 1..VLEN : InRange(v[r][k])
  /\ \A b \in 0..(BANKS - 1) : \A r \in 0..(Rows - 1) : \A c \in 0..(Cols - 1) :
       InRange(bank[b][r][c])
\* a dotu has been executed whose accumulation left the range at some step:
\* the destination holds the largest value
C30_Witness ==
  /\ FirstWordIs(1, MAP_VV_to_S) /\ step = 1 /\ status = "none"
  /\ Saturates(DotuTerms, LaneOrder)
  /\ s[Rd][1] = RAW_MAX

(***************************************************************************)
(* Scalar arithmetic.                                                      *)
(***************************************************************************)
\* the program has run to its end
Ran(p) == prog = p /\ phase = "halt" /\ status = "pc_out" /\ step = Len(p)

\* C31: the conjugate of the conjugate of a is a when the imaginary
\* component of a is not the least value; for the least value it is
\* -(2^63 - 1), the least value plus one
C31_ConjInvolution ==
  Ran(ConjProgram)
    => /\ s[1][2] # RAW_MIN => s[4] = s[1]
       /\ s[1][2] = RAW_MIN => s[4] = <<s[1][1], -RAW_MAX>>
\* the double conjugate of a value with the least imaginary component
C31_Witness == Ran(ConjProgram) /\ s[1][2] = RAW_MIN /\ s[3][2] = RAW_MAX /\ s[4][2] = RAW_MIN + 1

\* x encodes an integer; the integer it encodes; n has an encoding
IsInt(x) == x % Pow2(FRAC_BITS) = 0
IntOf(x) == x \div Pow2(FRAC_BITS)
Fits(n) == n * Pow2(FRAC_BITS) \in RAW_MIN..RAW_MAX

\* the operands of cmul encode integers, and the four products, their
\* difference and their sum have encodings
IntegerCase ==
  /\ IsInt(s[1][1]) /\ IsInt(s[1][2]) /\ IsInt(s[2][1]) /\ IsInt(s[2][2])
  /\ LET ar == IntOf(s[1][1])
         ai == IntOf(s[1][2])
         br == IntOf(s[2][1])
         bi == IntOf(s[2][2])
     IN /\ Fits(ar * br) /\ Fits(ai * bi) /\ Fits(ar * bi) /\ Fits(ai * br)
        /\ Fits(ar * br - ai * bi) /\ Fits(ar * bi + ai * br)

\* C32: cmul of operands that encode the integers ar, ai, br, bi, whose
\* products and sums stay in range, is exactly
\* ((ar*br - ai*bi)*2^32, (ar*bi + ai*br)*2^32)
C32_CmulExactOnIntegers ==
  (Ran(BinProgram) /\ IntegerCase)
    => LET ar == IntOf(s[1][1])
           ai == IntOf(s[1][2])
           br == IntOf(s[2][1])
           bi == IntOf(s[2][2])
       IN s[3] = <<(ar * br - ai * bi) * Pow2(FRAC_BITS), (ar * bi + ai * br) * Pow2(FRAC_BITS)>>
\* (1 + 2i)(-1 + i) = -3 - i
C32_Witness ==
  /\ Ran(BinProgram) /\ IntegerCase
  /\ s[1] = <<Pow2(FRAC_BITS), 2 * Pow2(FRAC_BITS)>>
  /\ s[2] = <<-Pow2(FRAC_BITS), Pow2(FRAC_BITS)>>
  /\ s[3] = <<-3 * Pow2(FRAC_BITS), -Pow2(FRAC_BITS)>>

(***************************************************************************)
(* Unknown words.                                                          *)
(***************************************************************************)
\* the sub-opcodes the emulator's tables define for an R-type mapping
RSubops(mapbits) ==
  CASE mapbits = MAP_SS_to_S -> 0..16
    [] mapbits = MAP_VV_to_V -> 0..5
    [] mapbits = MAP_VV_to_S -> 0..4
    [] mapbits = MAP_VS_to_V -> 24..27

\* the opcode of the word is none of 1, 2, 3, 4, or its sub-opcode is not
\* defined for its family and mapping
UnknownWord(w) ==
  LET opc   == get_bits(w, 127, 120)
      subop == get_bits(w, 119, 112)
  IN \/ opc \notin 1..4
     \/ opc = 1 /\ subop \notin RSubops(get_bits(w, 97, 96))
     \/ opc = 2 /\ subop \notin (0..6) \cup {16}
     \/ opc = 3 /\ subop # 0
     \/ opc = 4 /\ subop \notin 0..3

\* C33: executing a word whose opcode is not 1, 2, 3 or 4, or whose
\* sub-opcode is not defined for its family and mapping, raises a runtime
\* error that ends the run and leaves pc, the registers and the banks
\* unchanged
C33_UnknownWordRaises == [][(AtFetch /\ UnknownWord(CurWord)) => ErrorStep]_vars
\* a word of opcode 5 has ended a run after one completed step, with values
\* in the registers and the banks
C33_Witness ==
  /\ status = "error" /\ phase = "halt" /\ step = 1 /\ pc = 1
  /\ Len(prog) = 2 /\ get_bits(prog[2], 127, 120) = 5
  /\ s[3] # Zero /\ v[1] = LaneVec /\ bank = PatternBank

(***************************************************************************)
(* Division and squared magnitude.                                         *)
(***************************************************************************)
\* C34: for in-range a and b with a non-zero denominator, c_div(a, b) is
\* c_mul(a, c_conj(b)) with each component divided by
\* denom = add(mul(br, br), mul(bi, bi)), also when the imaginary component
\* of b is the least value and c_conj saturates its negation
C34_DivByConjugate ==
  (Ran(BinProgram) /\ Denom(s[2]) # 0)
    => LET num == c_mul(s[1], c_conj(s[2]))
       IN s[4] = <<div_q(num[1], Denom(s[2])), div_q(num[2], Denom(s[2]))>>

\* C35: for in-range (r, i), c_abs2 is add(mul(r, r), mul(i, i)), each
\* square truncated on its own before the saturating add; so c_abs2(b) = 0
\* exactly when the denominator c_div computes for the divisor b is 0
C35_Abs2BySquares ==
  Ran(BinProgram)
    => /\ s[5] = <<add_q(mul_q(s[2][1], s[2][1]), mul_q(s[2][2], s[2][2])), 0>>
       /\ (s[5][1] = 0) <=> (Denom(s[2]) = 0)

(***************************************************************************)
(* Rounding of products and quotients.                                     *)
(***************************************************************************)
\* p / 2^FRAC_BITS with its fractional part discarded toward zero: the
\* integer q of the sign of p with |q| * 2^FRAC_BITS <= |p| < (|q| + 1) * 2^FRAC_BITS
TowardZero(p) ==
  CHOOSE q \in (-(Abs(p) \div Pow2(FRAC_BITS)) - 1)..((Abs(p) \div Pow2(FRAC_BITS)) + 1) :
    /\ q * p >= 0
    /\ Abs(q) * Pow2(FRAC_BITS) <= Abs(p)
    /\ Abs(p) < (Abs(q) + 1) * Pow2(FRAC_BITS)

C37_RecipIsDiv ==
  phase = "halt"
    => /\ s[3][1] = div_q(Pow2(FRAC_BITS), s[1][1])
       /\ s[1][1] = 0 => s[3][1] = 0

(***************************************************************************)
(* One instruction per step.                                               *)
(***************************************************************************)
\* C38: each step of the run loop retires the one instruction at prog[pc]:
\* an R-type, I-type or S-type instruction that completes without error
\* increases pc by exactly 1, and only a jrel changes pc by another amount
C38_OneInstructionPerStep ==
  [][(AtFetch /\ status' # "error")
       => /\ step' = step + 1
          /\ CurOpc \in {1, 2, 4} => pc' = pc + 1
          /\ pc' # pc + 1 => IsJrel(CurWord)]_vars
\* three steps have retired two cloadi and an S-type word, and pc is 3
C38_Witness ==
  /\ Len(prog) = 3 /\ step = 3 /\ pc = 3 /\ status = "none"
  /\ get_bits(prog[1], 127, 120) = 2 /\ get_bits(prog[2], 127, 120) = 2
  /\ get_bits(prog[3], 127, 120) = 4 /\ get_bits(prog[3], 119, 112) = 3
  /\ bank # MachineInit.bank

(***************************************************************************)
(* Frame of each instruction family.                                       *)
(***************************************************************************)
\* every scalar (vector) register but r is as it was
OtherS(r) == \A i \in 0..7 : i # r => s'[i] = s[i]
OtherV(r) == \A i \in 0..7 : i # r => v'[i] = v[i]

\* every bank cell is as it was, but for the given cells of bank b
OtherCells(b, cells) ==
  \A b2 \in 0..(BANKS - 1) : \A r \in 0..(Rows - 1) : \A c \in 0..(Cols - 1) :
    (b2 # b \/ <<r, c>> \notin cells) => bank'[b2][r][c] = bank[b2][r][c]

\* the destination of the R-type word about to be executed is a scalar register
ScalarDest == get_bits(CurWord, 97, 96) \in {MAP_SS_to_S, MAP_VV_to_S}

\* the cells (row, column) the vst or sst.xy word about to be executed
\* addresses in its bank
CurL == IF CurLen16 # 0 THEN CurLen16 ELSE VLEN
VstCells ==
  IF CurRc = 0 THEN {<<CurI16, c>> : c \in 0..(CurL - 1)}
  ELSE {<<r, CurI16>> : r \in 0..(CurL - 1)}
SstCells == {<<CurJ16, CurI16>>}

EmuSubop ==
  [cneg |-> 0, conj |-> 1, csqrt |-> 2, cabs2 |-> 3, cabs |-> 4, creal |-> 5,
   cimag |-> 6, crecip |-> 7,
   cadd |-> 8, csub |-> 9, cmul |-> 10, cdiv |-> 11, cmaxabs |-> 12, cminabs |-> 13,
   vadd |-> 0, vsub |-> 1, vmul |-> 2, vmac |-> 3, vdiv |-> 4, vconj |-> 5,
   dotc |-> 0, dotu |-> 1, iamax |-> 2, sum |-> 3, asum |-> 4,
   vsadd |-> 24, vssub |-> 25, vsmul |-> 26, vsdiv |-> 27,
   cloadi |-> 0, cadd_i |-> 1, cmul_i |-> 2, csub_i |-> 3, cdiv_i |-> 4,
   cmaxabs_i |-> 5, cminabs_i |-> 6, cscale_i |-> 16,
   jrel |-> 0, vld |-> 0, vst |-> 1]
  @@ ("cmplt.re" :> 14) @@ ("cmpgt.re" :> 15) @@ ("cmple.re" :> 16)
  @@ ("sld.xy" :> 2) @@ ("sst.xy" :> 3)

\* the mnemonic of the k-th instruction of the text
MnemonicOf(lines, k) == MnOf(InstrTokens(lines[LineOfInstr(lines, k)])[1])

\* C40: every word the assembler emits for a source it accepts carries the
\* sub-opcode the emulator gives the mnemonic, and the run of the emitted
\* program never ends in an unknown-opcode, unknown-sub-opcode or
\* unknown-mapping error
C40_TablesMatch ==
  (Assembled /\ phase = "halt" /\ prog = out)
    => /\ \A k \in 1..Len(out) :
            /\ MnemonicOf(src, k) \in DOMAIN EmuSubop
            /\ get_bits(out[k], 119, 112) = EmuSubop[MnemonicOf(src, k)]
       /\ status = "error" => ~UnknownWord(prog[pc + 1])

====
